---------------------------- MODULE Spec2Model ----------------------------
(***************************************************************************)
(* mdsetup: the template renderer (libs/template.py, write_template), the  *)
(* create command that drives it (commands/cmd_create.py, cli), the        *)
(* command runner (libs/utils.py, run_command), the solvate command that   *)
(* calls both (commands/cmd_solvate.py), the command group (cli.py, main)  *)
(* and the init command (commands/cmd_setup.py).                           *)
(*                                                                         *)
(* Strings are sequences of one-character strings, so that the substring   *)
(* tests of the source ("Scripts" in path.as_posix()) are computed and not *)
(* assumed.  A path is a sequence of segments, a segment is a string.      *)
(***************************************************************************)
EXTENDS Integers, Sequences, FiniteSets, TLC

VARIABLES
    dirs,       \* the directories on disk: path -> permission bits
    files,      \* the regular files on disk: path -> [content, mode]
    umask,      \* the process umask (permission bits removed on creation)
    pkg,        \* the installed package: package_path -> listing of templates
    environ,    \* the names defined in os.environ
    args,       \* the arguments of the current write_template call
    wt_pc,      \* write_template: "idle", "loop", "done" or "failed"
    wt_i,       \* write_template: templates of the listing already processed
    listing,    \* write_template: loader.list_templates()
    written,    \* write_template: <<template, output path>> per completed print
    err,        \* the exception that ended the last call, or NoErr
    log,        \* the messages given to the logger, in order
    calls,      \* the driver: write_template calls made so far
    fs0,        \* the disk before the first call
    prev,       \* the disk and outputs at the end of the previous call
    cr_pc,      \* create: "idle", "loop", "render", "chmod", "done", "failed"
    cr_args,    \* create: [outdir, outtype, sim_prog]
    cr_k,       \* create: template sets of the selection already rendered
    cr_glob,    \* create: what subdir.glob("*.sh") has still to yield
    atStart,    \* the disk when the current create run began
    outcomes,   \* the test driver: how each finished create run ended
    todo,       \* the test driver: create runs still to make on this directory
    phase,      \* the test driver: "all" run first, then the three single runs
    fsAll,      \* the disk at the end of the "all" run
    sink,       \* the logger's file sink: "none", "other" or "cmdlog"
    rc_pc,      \* run_command: "none", "idle", "open", "opened", "running",
                \* "done" or "failed"
    rc_args,    \* run_command: [command, infile, cmdlog]
    rc_cmd,     \* run_command: what shutil.which(command) returned
    onPath,     \* the commands that PATH resolves to an executable
    handles,    \* the handles on cmdlog that run_command holds open
    opens,      \* the cmdlog.open() calls of the current call
    started,    \* the processes the current call has started
    emitted,    \* what the process of the current call has written so far
    status,     \* <<the returncode of that process>>, or <<>> while there is none
    before,     \* cmdlog when the current call began: its content, or Absent
    runs,       \* the driver: run_command calls that have ended
    sv_err,     \* the exception that left solvate's cli, or NoErr
    m_pc,       \* main: "none", "idle", "init" (in the body of init), "body"
                \* (in another body) or "exited"
    m_argv,     \* main: the arguments of the invocation
    m_out,      \* main: what the invocation has printed: "", "Usage:", "Error:"
    m_exit,     \* main: <<the exit status>>, or <<>> while it runs
    m_body,     \* main: the subcommand whose body was entered, or None
    importable, \* the names for which cmd_<name> can be imported
    in_args,    \* init: [outdir]
    in_i,       \* init: directories of the list already made
    invocations,\* the driver: invocations of main that have ended
    sv_pc,      \* solvate: position in cli
    sv_args,    \* solvate: [outdir, prefix, sim_prog, logfile]
    sv_k,       \* solvate: directories of extra_dirs gone through
    sv_kept,    \* solvate: the paths rmtree failed to remove
    sv_fail     \* solvate: the step that raised, "" while none has

vars == <<dirs, files, umask, pkg, environ, args, wt_pc, wt_i, listing,
          written, err, log, calls, fs0, prev, cr_pc, cr_args, cr_k, cr_glob,
          atStart, outcomes, todo, phase, fsAll, sink, rc_pc, rc_args,
          rc_cmd, onPath, handles, opens, started, emitted, status, before,
          runs, sv_err, m_pc, m_argv, m_out, m_exit, m_body, importable,
          in_args, in_i, invocations, sv_pc, sv_args, sv_k, sv_kept,
          sv_fail>>

\* the state of main and of init
mainVars == <<m_pc, m_argv, m_out, m_exit, m_body, importable, in_args, in_i,
              invocations>>

\* the state of solvate
svVars == <<sv_pc, sv_args, sv_k, sv_kept, sv_fail>>

\* the state of run_command and of its caller
runVars == <<rc_pc, rc_args, rc_cmd, onPath, handles, opens, started, emitted,
             status, before, runs, sv_err>>

-----------------------------------------------------------------------------
(* Strings *)

UpperAlpha == <<"A","B","C","D","E","F","G","H","I","J","K","L","M",
                "N","O","P","Q","R","S","T","U","V","W","X","Y","Z">>
LowerAlpha == <<"a","b","c","d","e","f","g","h","i","j","k","l","m",
                "n","o","p","q","r","s","t","u","v","w","x","y","z">>

\* str.lower() and str.upper() on one character
LowerChar(c) ==
    IF \E i \in 1..26 : UpperAlpha[i] = c
    THEN LowerAlpha[CHOOSE i \in 1..26 : UpperAlpha[i] = c]
    ELSE c

UpperChar(c) ==
    IF \E i \in 1..26 : LowerAlpha[i] = c
    THEN UpperAlpha[CHOOSE i \in 1..26 : LowerAlpha[i] = c]
    ELSE c

Lower(s) == [i \in 1..Len(s) |-> LowerChar(s[i])]

\* str.title() of a word without separators: first letter upper, rest lower
Title(s) == [i \in 1..Len(s) |-> IF i = 1 THEN UpperChar(s[i]) ELSE LowerChar(s[i])]

\* Python's `needle in hay` on strings
Contains(hay, needle) ==
    \E i \in 0..(Len(hay) - Len(needle)) :
        SubSeq(hay, i + 1, i + Len(needle)) = needle

RECURSIVE Concat(_)
Concat(ss) == IF ss = <<>> THEN <<>> ELSE Head(ss) \o Concat(Tail(ss))

\* the words of the source and of the inputs
w_Scripts   == <<"S","c","r","i","p","t","s">>
w_scripts   == <<"s","c","r","i","p","t","s">>
w_MyScripts == <<"M","y","S","c","r","i","p","t","s">>
w_equil     == <<"e","q","u","i","l">>
w_prod      == <<"p","r","o","d">>
w_all       == <<"a","l","l">>
w_out       == <<"o","u","t">>
w_templates == <<"t","e","m","p","l","a","t","e","s">>
w_amber     == <<"a","m","b","e","r">>
w_charmm    == <<"c","h","a","r","m","m">>
w_badprog   == <<"b","a","d","p","r","o","g">>
w_gmx       == <<"g","m","x">>
w_in        == <<".","i","n">>
w_sh        == <<".","s","h">>
w_jinja2    == <<".","j","i","n","j","a","2">>
w_j2        == <<".","j","2">>
w_md1       == <<"m","d","1">>
w_mdprod    == <<"m","d","p","r","o","d">>
w_run       == <<"r","u","n">>
w_mdst      == <<"m","d","s","t">>
w_sub       == <<"s","u","b">>
w_x         == <<"x">>
w_keep      == <<"k","e","e","p">>

-----------------------------------------------------------------------------
(* pathlib *)

\* PurePath.as_posix(): the segments joined by "/"
RECURSIVE AsPosix(_)
AsPosix(p) ==
    IF p = <<>> THEN <<>>
    ELSE IF Len(p) = 1 THEN p[1]
    ELSE p[1] \o <<"/">> \o AsPosix(Tail(p))

\* str.rfind("."), 1-based; 0 when there is none
RDot(name) ==
    IF \E i \in 1..Len(name) : name[i] = "."
    THEN CHOOSE i \in 1..Len(name) :
            name[i] = "." /\ \A j \in (i + 1)..Len(name) : name[j] # "."
    ELSE 0

\* PurePath.suffix of a final segment
Suffix(name) ==
    IF 1 < RDot(name) /\ RDot(name) < Len(name)
    THEN SubSeq(name, RDot(name), Len(name))
    ELSE <<>>

\* PurePath.stem of a final segment
StemOf(name) == SubSeq(name, 1, Len(name) - Len(Suffix(name)))

Name(p)   == p[Len(p)]
Parent(p) == SubSeq(p, 1, Len(p) - 1)
Stem(p)   == StemOf(Name(p))

\* PurePath.with_suffix(suffix)
WithSuffix(p, suffix) == Parent(p) \o <<StemOf(Name(p)) \o suffix>>

IsPrefix(p, q)     == Len(p) <= Len(q) /\ SubSeq(q, 1, Len(p)) = p
ProperPrefixes(p)  == {SubSeq(p, 1, n) : n \in 1..(Len(p) - 1)}

-----------------------------------------------------------------------------
(* The disk *)

PermBits == {"ur","uw","ux","gr","gw","gx","or","ow","ox"}

\* commands/__init__.py is not among the sources; the executable mode rwxr-xr-x
FILE_MODE == {"ur","uw","ux","gr","gx","or","ox"}

\* open(mode="w") creates with rw-rw-rw-, os.mkdir without mode with rwxrwxrwx
NewFileBits == {"ur","uw","gr","gw","or","ow"}
NewDirBits  == PermBits

Root == <<>>

IsDir(d, p)  == p = Root \/ p \in DOMAIN d
IsFile(f, p) == p \in DOMAIN f

NoErr == [kind |-> "none", name |-> <<>>]
Error(kind, name) == [kind |-> kind, name |-> name]

\* Path.mkdir with exist_ok left at its default: an existing directory raises
MkdirError_NoExistOk(d, f, p) ==
    IF p \in DOMAIN d \/ IsFile(f, p) THEN "FileExistsError"
    ELSE IF \E q \in ProperPrefixes(p) : IsFile(f, q) THEN "NotADirectoryError"
    ELSE "none"

\* Path.mkdir(mode, parents=True, exist_ok=True): the exception it raises
MkdirError(d, f, p) ==
    IF IsDir(d, p) THEN "none"
    ELSE IF IsFile(f, p) THEN "FileExistsError"
    ELSE IF \E q \in ProperPrefixes(p) : IsFile(f, q) THEN "NotADirectoryError"
    ELSE "none"

\* Path.mkdir(mode, parents=True, exist_ok=True): the directories afterwards.
\* Missing parents get the default bits, the leaf gets `mode`, an existing
\* directory keeps its bits; the umask applies to both.
Mkdir(d, f, um, p, mode) ==
    IF MkdirError(d, f, p) # "none" \/ IsDir(d, p) THEN d
    ELSE [q \in DOMAIN d \cup ProperPrefixes(p) \cup {p} |->
            IF q \in DOMAIN d THEN d[q]
            ELSE IF q = p THEN mode \ um
            ELSE NewDirBits \ um]

\* Path.open(mode="w"): the exception it raises
OpenError(d, f, p) ==
    IF IsDir(d, p) THEN "IsADirectoryError"
    ELSE IF \E q \in ProperPrefixes(p) : IsFile(f, q) THEN "NotADirectoryError"
    ELSE IF ~IsDir(d, Parent(p)) THEN "FileNotFoundError"
    ELSE "none"

\* Path.open(mode="a"): an existing file keeps its content
OpenW_Append(f, um, p) ==
    [q \in DOMAIN f \cup {p} |->
        IF q \in DOMAIN f THEN f[q]
        ELSE [content |-> <<>>, mode |-> NewFileBits \ um]]

\* Path.open(mode="w"): the file is created or truncated, its bits are kept
OpenW(f, um, p) ==
    [q \in DOMAIN f \cup {p} |->
        IF q # p THEN f[q]
        ELSE [content |-> <<>>,
              mode    |-> IF p \in DOMAIN f THEN f[p].mode ELSE NewFileBits \ um]]

\* write(text) on a handle opened by OpenW
Write(f, p, text) ==
    [f EXCEPT ![p] = [content |-> f[p].content \o text, mode |-> f[p].mode]]

\* Path.chmod(mode)
Chmod(f, p, mode) == [f EXCEPT ![p] = [content |-> f[p].content, mode |-> mode]]

-----------------------------------------------------------------------------
(* jinja2 *)

\* A template is [name, body, ok]: its name in list_templates() (a relative
\* path), its body (literal characters and {{ data.key }} references) and
\* whether the body compiles.
Lit(c) == <<"lit", c>>
Var(k) == <<"var", k>>

\* markupsafe.escape on one character
EscapeChar(c) ==
    CASE c = "&"  -> <<"&","a","m","p",";">>
      [] c = "<"  -> <<"&","l","t",";">>
      [] c = ">"  -> <<"&","g","t",";">>
      [] c = "'"  -> <<"&","#","3","9",";">>
      [] c = "\"" -> <<"&","#","3","4",";">>
      [] OTHER    -> <<c>>

Escape(s) == Concat([i \in 1..Len(s) |-> EscapeChar(s[i])])

\* Environment(loader=loader, autoescape=True)
Autoescape == TRUE

\* {{ data.key }}: an absent key is jinja2's default Undefined, which prints
\* as the empty string; a present value is escaped when autoescape is on.
RenderToken(tok, data) ==
    IF tok[1] = "lit" THEN <<tok[2]>>
    ELSE IF tok[2] \notin DOMAIN data THEN <<>>
    ELSE IF Autoescape THEN Escape(data[tok[2]])
    ELSE data[tok[2]]

\* Template.render(data=data)
Render(body, data) == Concat([i \in 1..Len(body) |-> RenderToken(body[i], data)])

\* print(text, file=infile)
PrintLine(text) == text \o <<"\n">>

-----------------------------------------------------------------------------
(* Inputs *)

\* the most templates one template set holds
MaxTemplates == 2
\* the most write_template calls the driver makes with the same arguments
MaxCalls == 2

Template(name, body, ok) == [name |-> name, body |-> body, ok |-> ok]

\* The templates a set is drawn from, in the order list_templates() gives
\* them (sorted by name): two with the same stem, one that reads data.prefix,
\* one that does not compile, a script, and one in a subdirectory.
AllTemplates ==
    << Template(<<w_md1 \o w_j2>>, <<Lit("o"), Var("temp1")>>, TRUE),
       Template(<<w_md1 \o w_jinja2>>, <<Lit("t"), Lit("="), Var("temp1")>>, TRUE),
       Template(<<w_mdprod \o w_jinja2>>, <<Lit("p"), Lit("="), Var("prefix")>>, TRUE),
       Template(<<w_mdst \o w_jinja2>>, <<Lit("{")>>, FALSE),
       Template(<<w_run \o w_jinja2>>, <<Lit("#"), Var("prefix")>>, TRUE),
       Template(<<w_sub, w_x \o w_jinja2>>, <<Lit("x")>>, TRUE) >>

\* the members of AllTemplates with index in S, in order
RECURSIVE Pick(_, _)
Pick(S, n) ==
    IF n > Len(AllTemplates) THEN <<>>
    ELSE IF n \in S THEN <<AllTemplates[n]>> \o Pick(S, n + 1)
    ELSE Pick(S, n + 1)

Listings ==
    {Pick(S, 1) : S \in {X \in SUBSET (1..Len(AllTemplates)) : Cardinality(X) <= MaxTemplates}}

\* the data records: markup-significant characters, plain, and no prefix
Datas ==
    { [temp1 |-> <<"3">>, prefix |-> <<"a","&","<","'">>],
      [temp1 |-> <<"3">>, prefix |-> <<"a","b">>],
      [temp1 |-> <<"3">>] }

Subdirs ==
    { <<w_out, Title(w_equil)>>, <<w_out, w_Scripts>>,
      <<w_MyScripts, Title(w_equil)>>, <<w_out, w_scripts>> }

PackagePaths ==
    { <<w_templates, w_amber, w_equil>>, <<w_templates, w_amber, w_scripts>>,
      <<w_templates, w_amber, w_Scripts>>, <<w_templates, w_MyScripts \o w_scripts>> }

Umasks == { {"gw","ow"} }

F(text, mode) == [content |-> text, mode |-> mode]
w_old == <<"o","l","d","\n">>

\* The disks a run may start on: empty; the tree of an earlier run with other
\* content (and the directory a template in a subdirectory needs); a regular
\* file where a template's directory belongs.
Disks ==
    { [d |-> <<>>, f |-> <<>>],
      [d |-> [p \in { <<w_out>>, <<w_out, Title(w_equil)>>,
                      <<w_out, Title(w_equil), w_md1>>,
                      <<w_out, Title(w_equil), w_x>>,
                      <<w_out, Title(w_equil), w_x, w_sub>>,
                      <<w_out, w_Scripts>> } |-> FILE_MODE \ {"gx","ox"}],
       f |-> [p \in { <<w_out, Title(w_equil), w_md1, w_md1 \o w_in>>,
                      <<w_out, w_Scripts, w_run \o w_sh>>,
                      <<w_out, w_Scripts, w_keep \o w_sh>>,
                      <<w_out, w_Scripts, w_mdst \o w_sh>> } |->
                F(w_old, {"ur","uw"})]],
      [d |-> [p \in { <<w_out>>, <<w_out, Title(w_equil)>> } |-> FILE_MODE],
       f |-> [p \in { <<w_out, Title(w_equil), w_mdprod>> } |-> F(w_old, {"ur","uw"})]] }

-----------------------------------------------------------------------------
(* libs/template.py: write_template *)

\* line 67: subdir / stem, unless "Scripts" occurs in that path's text
Subdirectory(subdir, filename) ==
    IF ~Contains(AsPosix(subdir \o <<Stem(filename)>>), w_Scripts)
    THEN subdir \o <<Stem(filename)>>
    ELSE subdir

\* the extension chosen by a whole segment named "scripts"
Extension_Segment(package_path) ==
    IF \E k \in 1..Len(package_path) : package_path[k] = w_scripts
    THEN w_sh ELSE w_in

\* the extension chosen by "scripts" in package_path.as_posix().lower()
Extension_Lower(package_path) ==
    IF Contains(Lower(AsPosix(package_path)), w_scripts) THEN w_sh ELSE w_in

\* lines 69-73: the extension, from the text of the template set's location
Extension(package_path) ==
    IF Contains(AsPosix(package_path), w_scripts) THEN w_sh ELSE w_in

\* main and init are not in use
NoMain ==
    /\ m_pc = "none"
    /\ m_argv = <<>>
    /\ m_out = ""
    /\ m_exit = <<>>
    /\ m_body = <<>>
    /\ importable = {}
    /\ in_args = <<>>
    /\ in_i = 0
    /\ invocations = 0

\* solvate is not in use
NoSolvate ==
    /\ sv_pc = "none"
    /\ sv_args = <<>>
    /\ sv_k = 0
    /\ sv_kept = {}
    /\ sv_fail = ""

\* run_command is not in use
NoRun ==
    /\ rc_pc = "none"
    /\ rc_args = <<>>
    /\ rc_cmd = <<>>
    /\ onPath = {}
    /\ handles = 0
    /\ opens = 0
    /\ started = 0
    /\ emitted = <<>>
    /\ status = <<>>
    /\ before = <<>>
    /\ runs = 0
    /\ sv_err = NoErr

LineWriting == "INFO | Writing script to ...\n"

\* cmd_solvate.py line 164: outdir / prefix.with_suffix(".log")
LognameOf(a) == a.outdir \o WithSuffix(a.prefix, <<".","l","o","g">>)

\* a line of the logger reaches solvate's command log when the logger's file
\* sink is that file
SinkLine(f, snk, a, line) ==
    IF snk = "cmdlog" THEN Write(f, LognameOf(a), <<line>>) ELSE f

\* lines 69-73: the output file of one template
InputFile(subdir, package_path, filename) ==
    Subdirectory(subdir, filename) \o WithSuffix(filename, Extension(package_path))

\* line 78: what print() leaves in the file
Output(t, data) == PrintLine(Render(t.body, data))

Info(msg, what) == <<"INFO", msg, what>>

\* lines 62-65: the loader is built and the templates are listed.  A
\* package_path that is no directory of the package makes PackageLoader raise
\* ValueError, which the except clause (TemplateNotFound) does not catch.
WTEnter(a) ==
    /\ args' = a
    /\ written' = <<>>
    /\ wt_i' = 0
    /\ IF a.package_path \in DOMAIN pkg
       THEN /\ listing' = pkg[a.package_path]
            /\ wt_pc' = "loop"
            /\ err' = NoErr
       ELSE /\ listing' = <<>>
            /\ wt_pc' = "failed"
            /\ err' = Error("ValueError", <<>>)

WTRaise(kind, name) ==
    /\ wt_pc' = "failed"
    /\ err' = Error(kind, name)
    /\ UNCHANGED <<wt_i, written, log>>

\* get_template called before the file is opened
FailedLoad_BeforeOpen(f, f1) == f

\* lines 75-76: get_template raises inside the with block: of the files
\* before open() and after it, the disk holds the latter
FailedLoad(f, f1) == f1

\* lines 65-78: one turn of the loop, for the next template of the listing
WTIter ==
    /\ wt_pc = "loop"
    /\ wt_i < Len(listing)
    /\ LET t  == listing[wt_i + 1]
           sd == Subdirectory(args.subdir, t.name)
           f  == InputFile(args.subdir, args.package_path, t.name)
           d1 == Mkdir(dirs, files, umask, sd, FILE_MODE)
           f1 == OpenW(files, umask, f)
       IN  IF MkdirError(dirs, files, sd) # "none"
           THEN /\ WTRaise(MkdirError(dirs, files, sd), sd)
                /\ UNCHANGED <<dirs, files>>
           ELSE IF OpenError(d1, files, f) # "none"
           THEN /\ WTRaise(OpenError(d1, files, f), f)
                /\ dirs' = d1
                /\ UNCHANGED files
           ELSE IF ~t.ok
           THEN /\ WTRaise("TemplateSyntaxError", t.name)
                /\ dirs' = d1
                /\ files' = FailedLoad(files, f1)
           ELSE /\ dirs' = d1
                /\ files' = SinkLine(Write(f1, f, Output(t, args.data)), sink,
                                      sv_args, LineWriting)
                /\ log' = Append(log, Info("Writing script to", f))
                /\ written' = Append(written, <<t.name, f>>)
                /\ wt_i' = wt_i + 1
                /\ UNCHANGED <<wt_pc, err>>
    /\ UNCHANGED <<umask, pkg, environ, args, listing, calls, fs0, prev,
                   cr_pc, cr_args, cr_k, cr_glob, atStart, outcomes, todo,
                   phase, fsAll>>
    /\ UNCHANGED <<sink, runVars>>
    /\ UNCHANGED <<mainVars, svVars>>

\* line 65: the listing is exhausted and the call returns
WTReturn ==
    /\ wt_pc = "loop"
    /\ wt_i = Len(listing)
    /\ wt_pc' = "done"
    /\ UNCHANGED <<dirs, files, umask, pkg, environ, args, wt_i, listing,
                   written, err, log, calls, fs0, prev, cr_pc, cr_args, cr_k,
                   cr_glob, atStart, outcomes, todo, phase, fsAll>>
    /\ UNCHANGED <<sink, runVars>>
    /\ UNCHANGED <<mainVars, svVars>>

-----------------------------------------------------------------------------
(* A caller of write_template: the same arguments, MaxCalls times *)

NoCreate == [outdir |-> <<>>, outtype |-> <<>>, sim_prog |-> <<>>, data |-> <<>>]
Snapshot == [dirs |-> dirs, files |-> files, written |-> written, pc |-> wt_pc]
NoSnapshot == [dirs |-> <<>>, files |-> <<>>, written |-> <<>>, pc |-> "none"]

Init ==
    /\ \E disk \in Disks :
        /\ dirs = disk.d
        /\ files = disk.f
        /\ fs0 = disk
    /\ umask \in Umasks
    /\ \E pp \in PackagePaths :
        /\ \/ pkg = <<>>
           \/ \E l \in Listings : pkg = [p \in {pp} |-> l]
        /\ \E data \in Datas, subdir \in Subdirs :
            args = [data |-> data, subdir |-> subdir, package_path |-> pp,
                    template |-> pp[Len(pp)]]
    /\ environ = {}
    /\ wt_pc = "idle"
    /\ wt_i = 0
    /\ listing = <<>>
    /\ written = <<>>
    /\ err = NoErr
    /\ log = <<>>
    /\ calls = 0
    /\ prev = NoSnapshot
    /\ cr_pc = "none"
    /\ cr_args = NoCreate
    /\ cr_k = 0
    /\ cr_glob = {}
    /\ atStart = NoSnapshot
    /\ outcomes = <<>>
    /\ todo = <<>>
    /\ phase = "none"
    /\ fsAll = NoSnapshot
    /\ sink = "none"
    /\ NoRun
    /\ NoMain
    /\ NoSolvate

\* the caller calls write_template(data, subdir, package_path, template)
Call ==
    /\ cr_pc = "none"
    /\ wt_pc = "idle"
    /\ calls < MaxCalls
    /\ calls' = calls + 1
    /\ WTEnter(args)
    /\ UNCHANGED <<dirs, files, umask, pkg, environ, log, fs0, prev, cr_pc,
                   cr_args, cr_k, cr_glob, atStart, outcomes, todo, phase,
                   fsAll>>
    /\ UNCHANGED <<sink, runVars>>
    /\ UNCHANGED <<mainVars, svVars>>

\* the call has returned or raised; the caller looks at the disk
Returned ==
    /\ cr_pc = "none"
    /\ wt_pc \in {"done", "failed"}
    /\ calls < MaxCalls
    /\ prev' = Snapshot
    /\ wt_pc' = "idle"
    /\ UNCHANGED <<dirs, files, umask, pkg, environ, args, wt_i, listing,
                   written, err, log, calls, fs0, cr_pc, cr_args, cr_k, cr_glob,
                   atStart, outcomes, todo, phase, fsAll>>
    /\ UNCHANGED <<sink, runVars>>
    /\ UNCHANGED <<mainVars, svVars>>

Next == Call \/ WTIter \/ WTReturn \/ Returned

Spec == Init /\ [][Next]_vars

-----------------------------------------------------------------------------
(* Claims about write_template, under Spec *)

Outputs == {written[i][2] : i \in 1..Len(written)}

\* the i-th completed print is the last one of this call to its path
LastWriter(i) == \A j \in (i + 1)..Len(written) : written[j][2] # written[i][2]

\* the directory a template's relative name was joined to
WrittenInto(i) == SubSeq(written[i][2], 1, Len(written[i][2]) - Len(written[i][1]))

\* the keys a template body references
Refs(body) == {body[i][2] : i \in {j \in 1..Len(body) : body[j][1] = "var"}}

TemplateOf(i) == CHOOSE t \in {listing[j] : j \in 1..Len(listing)} : t.name = written[i][1]

\* the body with each referenced value put in as given
Verbatim(body, data) ==
    Concat([i \in 1..Len(body) |->
              IF body[i][1] = "lit" THEN <<body[i][2]>>
              ELSE IF body[i][2] \in DOMAIN data THEN data[body[i][2]]
              ELSE <<>>])

\* C1: a successful call on a set of N templates leaves exactly N output
\* files, one per template, each in subdir/<stem> (or in subdir when
\* flattened), each with extension .in or .sh, no two at the same path.
C1_OneFilePerTemplate ==
    wt_pc = "done" =>
        /\ Len(written) = Len(listing)
        /\ Cardinality(Outputs) = Len(listing)
        /\ \A i \in 1..Len(written) :
            /\ written[i][2] \in DOMAIN files
            /\ Suffix(Name(written[i][2])) \in {w_in, w_sh}
            /\ \/ IsPrefix(args.subdir \o <<Stem(written[i][1])>>, written[i][2])
               \/ Parent(written[i][2]) = args.subdir

\* C2: a template is written into subdir/<stem> unless a whole segment of
\* subdir/<stem> is "Scripts", and then into subdir.
C2_FlattenOnWholeSegment ==
    \A i \in 1..Len(written) :
        LET target == args.subdir \o <<Stem(written[i][1])>>
        IN  WrittenInto(i) =
                IF \E k \in 1..Len(target) : target[k] = w_Scripts
                THEN args.subdir ELSE target

\* C3: every output has extension .sh when the text of package_path contains
\* "scripts" and .in otherwise, whatever the output directory and the
\* template's name are.
C3_ExtensionFromLocation ==
    \A i \in 1..Len(written) :
        Suffix(Name(written[i][2])) =
            IF Contains(AsPosix(args.package_path), w_scripts) THEN w_sh ELSE w_in

C3_Witness ==
    /\ wt_pc = "done"
    /\ args.subdir = <<w_out, Title(w_equil)>>
    /\ \E i \in 1..Len(written) : Suffix(Name(written[i][2])) = w_sh

\* C4 as stated: the test is case-insensitive, so a location containing
\* Scripts or SCRIPTS yields .sh as well.
C4_CaseInsensitive ==
    \A i \in 1..Len(written) :
        Contains(Lower(AsPosix(args.package_path)), w_scripts)
            => Suffix(Name(written[i][2])) = w_sh

\* C4 amended: the test is case-sensitive; a location that contains scripts
\* only in another case (Scripts) yields .in.
C4_CaseSensitive ==
    \A i \in 1..Len(written) :
        (/\ Contains(Lower(AsPosix(args.package_path)), w_scripts)
         /\ ~Contains(AsPosix(args.package_path), w_scripts))
            => Suffix(Name(written[i][2])) = w_in

C4_Witness ==
    /\ wt_pc = "done"
    /\ args.package_path = <<w_templates, w_amber, w_Scripts>>
    /\ Len(written) > 0

\* C5: autoescaping is off: a value with <, >, &, ' or " is in the output
\* file character for character.
C5_ValuesVerbatim ==
    \A i \in 1..Len(written) :
        LastWriter(i) =>
            files[written[i][2]].content =
                Verbatim(TemplateOf(i).body, args.data) \o <<"\n">>

\* C6: a template that references a key absent from the data (or does not
\* compile) makes the call fail with an error naming that template, and the
\* outputs written before it stay on disk.
C6_MissingKeyFails ==
    /\ \A i \in 1..wt_i : Refs(listing[i].body) \subseteq DOMAIN args.data
    /\ (wt_pc = "failed" /\ err.kind = "TemplateSyntaxError") =>
        /\ err.name = listing[wt_i + 1].name
        /\ \A i \in 1..Len(written) : written[i][2] \in DOMAIN files

\* C8: a second call with the same arguments on the tree the first call left
\* does not fail, processes the templates in the same order and leaves the
\* same files with the same contents.
C8_Idempotent ==
    (calls >= 2 /\ prev.pc = "done") =>
        /\ wt_pc # "failed"
        /\ wt_pc = "done" =>
            /\ written = prev.written
            /\ files = prev.files
            /\ dirs = prev.dirs

C8_Witness ==
    /\ calls = 2
    /\ prev.pc = "done"
    /\ wt_pc = "done"
    /\ Len(written) = 2

-----------------------------------------------------------------------------
(* commands/cmd_create.py: cli *)

\* the sets of all in another order
TemplateName_ScriptsFirst(outtype) ==
    CASE outtype = w_equil   -> <<w_equil>>
      [] outtype = w_prod    -> <<w_prod>>
      [] outtype = w_scripts -> <<w_scripts>>
      [] OTHER               -> <<w_scripts, w_equil, w_prod>>

\* lines 231-236: the template sets of each output category
TemplateName(outtype) ==
    CASE outtype = w_equil   -> <<w_equil>>
      [] outtype = w_prod    -> <<w_prod>>
      [] outtype = w_scripts -> <<w_scripts>>
      [] OTHER               -> <<w_equil, w_prod, w_scripts>>

\* line 248: the categories after which the permissions are changed
ChangesModes_OnlyAll(outtype) == outtype = w_all

\* the permissions changed after every category
ChangesModes_Always(outtype) == TRUE

ChangesModes(outtype) == outtype = w_scripts \/ outtype = w_all

\* lines 206-229: the data record; amber adds the AMBERHOME path
Data(a) ==
    IF a.sim_prog = w_amber
    THEN [k \in DOMAIN a.data \cup {"amberhome"} |->
            IF k = "amberhome" THEN w_out ELSE a.data[k]]
    ELSE a.data

\* outdir.glob("*.sh"): the glob made one directory too high
Glob_Outdir(d, f, subdir) ==
    {p \in DOMAIN d \cup DOMAIN f :
        /\ Parent(p) = Parent(subdir)
        /\ Len(Name(p)) >= Len(w_sh)
        /\ SubSeq(Name(p), Len(Name(p)) - Len(w_sh) + 1, Len(Name(p))) = w_sh}

\* line 251: subdir.glob("*.sh"), the entries of subdir whose name ends in .sh
Glob(d, f, subdir) ==
    {p \in DOMAIN d \cup DOMAIN f :
        /\ Parent(p) = subdir
        /\ Len(Name(p)) >= Len(w_sh)
        /\ SubSeq(Name(p), Len(Name(p)) - Len(w_sh) + 1, Len(Name(p))) = w_sh}

DiskNow == [dirs |-> dirs, files |-> files, pc |-> cr_pc, log |-> log]

\* lines 125-132: click.Choice("amber charmm gmx".split()) on --simprog
SimProgs == {w_amber, w_charmm, w_gmx}

\* click.Choice without the check: any value is let through to the body
Accepted_Any(sim_prog) == TRUE

\* lines 125-132: click converts the option before it calls the body
Accepted(sim_prog) == sim_prog \in SimProgs

\* the check made for every program but amber
MissingHome_NotAmber(sim_prog, env) ==
    sim_prog # w_amber /\ "AMBERHOME" \notin env

\* lines 223-229: os.environ["AMBERHOME"] is read for amber only
MissingHome(sim_prog, env) ==
    sim_prog = w_amber /\ "AMBERHOME" \notin env

\* the exit status of the command: click ends a usage error with 2, an
\* exception that leaves the body with 1
ExitCode(e) ==
    IF e = NoErr THEN 0 ELSE IF e.kind = "UsageError" THEN 2 ELSE 1

\* lines 125-132 and 198-229: click converts the options and, when it accepts
\* them, calls the body: logging is configured (the log file is created), the
\* topology is read, the data record is built; amber without AMBERHOME
\* raises KeyError
CreateStart ==
    /\ cr_pc = "idle"
    /\ todo # <<>>
    /\ todo' = Tail(todo)
    /\ cr_args' = [cr_args EXCEPT !.outtype = Head(todo)]
    /\ atStart' = DiskNow
    /\ cr_k' = 0
    /\ IF ~Accepted(cr_args.sim_prog)
       THEN /\ cr_pc' = "failed"
            /\ err' = Error("UsageError", cr_args.sim_prog)
            /\ UNCHANGED <<log, sink>>
       ELSE IF MissingHome(cr_args.sim_prog, environ)
       THEN /\ cr_pc' = "failed"
            /\ sink' = "other"
            /\ err' = Error("KeyError", <<"AMBERHOME">>)
            /\ log' = Append(log, <<"ERROR", "AMBERHOME environment variable not defined.", <<>>>>)
       ELSE /\ cr_pc' = "loop"
            /\ sink' = "other"
            /\ err' = NoErr
            /\ log' = IF cr_args.sim_prog = w_amber
                      THEN Append(log, <<"DEBUG", "AMBERHOME =", w_out>>)
                      ELSE log
    /\ UNCHANGED <<dirs, files, umask, pkg, environ, args, wt_pc, wt_i,
                   listing, written, calls, fs0, prev, cr_glob, outcomes,
                   phase, fsAll>>
    /\ UNCHANGED runVars
    /\ UNCHANGED <<mainVars, svVars>>

CreateIter ==
    /\ cr_pc = "loop"
    /\ cr_k < Len(TemplateName(cr_args.outtype))
    /\ LET c            == TemplateName(cr_args.outtype)[cr_k + 1]
           template_dir == <<w_templates, cr_args.sim_prog, c>>
           subdir       == cr_args.outdir \o <<Title(c)>>
       IN  IF MkdirError(dirs, files, subdir) # "none"
           THEN /\ cr_pc' = "failed"
                /\ err' = Error(MkdirError(dirs, files, subdir), subdir)
                /\ UNCHANGED <<dirs, log, args, wt_pc, wt_i, listing, written>>
           ELSE /\ dirs' = Mkdir(dirs, files, umask, subdir, FILE_MODE)
                /\ log' = log \o << Info("Template directory:", template_dir),
                                    Info("Output files:", subdir) >>
                /\ WTEnter([data |-> Data(cr_args), subdir |-> subdir,
                            package_path |-> template_dir, template |-> c])
                /\ cr_pc' = "render"
    /\ UNCHANGED <<files, umask, pkg, environ, calls, fs0, prev, cr_args,
                   cr_k, cr_glob, atStart, outcomes, todo, phase, fsAll>>
    /\ UNCHANGED <<sink, runVars>>
    /\ UNCHANGED <<mainVars, svVars>>

\* line 245: write_template has returned; the loop goes on
CreateRendered ==
    /\ cr_pc = "render"
    /\ wt_pc = "done"
    /\ wt_pc' = "idle"
    /\ cr_k' = cr_k + 1
    /\ cr_pc' = "loop"
    /\ UNCHANGED <<dirs, files, umask, pkg, environ, args, wt_i, listing,
                   written, err, log, calls, fs0, prev, cr_args, cr_glob,
                   atStart, outcomes, todo, phase, fsAll>>
    /\ UNCHANGED <<sink, runVars>>
    /\ UNCHANGED <<mainVars, svVars>>

\* line 245: write_template has raised; the exception leaves cli
CreateRaised ==
    /\ cr_pc = "render"
    /\ wt_pc = "failed"
    /\ wt_pc' = "idle"
    /\ cr_pc' = "failed"
    /\ UNCHANGED <<dirs, files, umask, pkg, environ, args, wt_i, listing,
                   written, err, log, calls, fs0, prev, cr_args, cr_k,
                   cr_glob, atStart, outcomes, todo, phase, fsAll>>
    /\ UNCHANGED <<sink, runVars>>
    /\ UNCHANGED <<mainVars, svVars>>

\* lines 248-251: after the last set, scripts and all list Scripts/*.sh
CreateLoopEnd ==
    /\ cr_pc = "loop"
    /\ cr_k = Len(TemplateName(cr_args.outtype))
    /\ IF ChangesModes(cr_args.outtype)
       THEN /\ cr_pc' = "chmod"
            /\ cr_glob' = Glob(dirs, files, cr_args.outdir \o <<w_Scripts>>)
            /\ log' = Append(log, <<"DEBUG", "Changing file permissions to", <<>>>>)
       ELSE /\ cr_pc' = "done"
            /\ UNCHANGED <<cr_glob, log>>
    /\ UNCHANGED <<dirs, files, umask, pkg, environ, args, wt_pc, wt_i,
                   listing, written, err, calls, fs0, prev, cr_args, cr_k,
                   atStart, outcomes, todo, phase, fsAll>>
    /\ UNCHANGED <<sink, runVars>>
    /\ UNCHANGED <<mainVars, svVars>>

\* lines 251-252: one entry of the glob, in the order the directory gives
CreateChmod ==
    /\ cr_pc = "chmod"
    /\ \E p \in cr_glob :
        /\ cr_glob' = cr_glob \ {p}
        /\ IF p \in DOMAIN files
           THEN files' = Chmod(files, p, FILE_MODE) /\ UNCHANGED dirs
           ELSE dirs' = [dirs EXCEPT ![p] = FILE_MODE] /\ UNCHANGED files
    /\ UNCHANGED <<umask, pkg, environ, args, wt_pc, wt_i, listing, written,
                   err, log, calls, fs0, prev, cr_pc, cr_args, cr_k, atStart,
                   outcomes, todo, phase, fsAll>>
    /\ UNCHANGED <<sink, runVars>>
    /\ UNCHANGED <<mainVars, svVars>>

\* line 252: the glob is exhausted and cli returns
CreateExit ==
    /\ cr_pc = "chmod"
    /\ cr_glob = {}
    /\ cr_pc' = "done"
    /\ UNCHANGED <<dirs, files, umask, pkg, environ, args, wt_pc, wt_i,
                   listing, written, err, log, calls, fs0, prev, cr_args,
                   cr_k, cr_glob, atStart, outcomes, todo, phase, fsAll>>
    /\ UNCHANGED <<sink, runVars>>
    /\ UNCHANGED <<mainVars, svVars>>

-----------------------------------------------------------------------------
(* The create runs compared: "all" once, then on the same starting *)
(* directory equil, prod and scripts one after the other.          *)

\* the listings a category directory of the package may hold (absent: none)
Sets(c) ==
    CASE c = w_equil ->
            { <<AllTemplates[2]>>, <<AllTemplates[1], AllTemplates[2]>>,
              <<AllTemplates[3]>> }
      [] c = w_prod ->
            { <<AllTemplates[3]>>, <<AllTemplates[3], AllTemplates[4]>> }
      [] OTHER ->
            { <<AllTemplates[5]>>, <<AllTemplates[2], AllTemplates[5]>> }

Opt(c) == {[here |-> FALSE, l |-> <<>>]} \cup {[here |-> TRUE, l |-> x] : x \in Sets(c)}

\* the packages: each category directory of sim_prog absent or one listing
Packages(sim_prog) ==
    { [p \in {<<w_templates, sim_prog, c>> : c \in {k \in DOMAIN o : o[k].here}} |->
            o[p[3]].l] :
        o \in [{w_equil, w_prod, w_scripts} ->
                  Opt(w_equil) \cup Opt(w_prod) \cup Opt(w_scripts)] \cap
              {x \in [{w_equil, w_prod, w_scripts} ->
                        Opt(w_equil) \cup Opt(w_prod) \cup Opt(w_scripts)] :
                    \A c \in DOMAIN x : x[c] \in Opt(c)} }

\* --outdir is checked to exist (click.Path(exists=True)) before cli runs
WithDir(disk, p) ==
    [d |-> [q \in DOMAIN disk.d \cup {p} |->
                IF q \in DOMAIN disk.d THEN disk.d[q] ELSE FILE_MODE],
     f |-> disk.f]

Programs ==
    { [sim_prog |-> w_amber, environ |-> {"AMBERHOME"}],
      [sim_prog |-> w_amber, environ |-> {}],
      [sim_prog |-> w_charmm, environ |-> {}],
      [sim_prog |-> w_badprog, environ |-> {"AMBERHOME"}] }

InitCreate ==
    /\ \E disk \in Disks, outdir \in {<<w_out>>, <<w_MyScripts>>},
          prog \in Programs, data \in {x \in Datas : "prefix" \in DOMAIN x} :
        /\ dirs = WithDir(disk, outdir).d
        /\ files = disk.f
        /\ fs0 = WithDir(disk, outdir)
        /\ environ = prog.environ
        /\ pkg \in IF prog.sim_prog \in SimProgs
                    THEN Packages(prog.sim_prog) ELSE {<<>>}
        /\ cr_args = [outdir |-> outdir, outtype |-> <<>>,
                      sim_prog |-> prog.sim_prog, data |-> data]
    /\ umask \in Umasks
    /\ args = [data |-> <<>>, subdir |-> <<>>, package_path |-> <<>>,
               template |-> <<>>]
    /\ wt_pc = "idle"
    /\ wt_i = 0
    /\ listing = <<>>
    /\ written = <<>>
    /\ err = NoErr
    /\ log = <<>>
    /\ calls = 0
    /\ prev = NoSnapshot
    /\ cr_pc = "idle"
    /\ cr_k = 0
    /\ cr_glob = {}
    /\ atStart = NoSnapshot
    /\ outcomes = <<>>
    /\ todo = <<w_all>>
    /\ phase = "all"
    /\ fsAll = NoSnapshot
    /\ sink = "none"
    /\ NoRun
    /\ NoMain
    /\ NoSolvate

\* the "all" run has ended: its result is kept and the three single runs
\* start from the directory the "all" run started from
Restart ==
    /\ phase = "all"
    /\ cr_pc \in {"done", "failed"}
    /\ fsAll' = DiskNow
    /\ dirs' = fs0.d
    /\ files' = fs0.f
    /\ log' = <<>>
    /\ sink' = "none"
    /\ phase' = "each"
    /\ todo' = <<w_equil, w_prod, w_scripts>>
    /\ cr_pc' = "idle"
    /\ UNCHANGED <<umask, pkg, environ, args, wt_pc, wt_i, listing, written,
                   err, calls, fs0, prev, cr_args, cr_k, cr_glob, atStart,
                   outcomes>>
    /\ UNCHANGED runVars
    /\ UNCHANGED <<mainVars, svVars>>

\* a single run has ended: the next one is made, whatever the outcome
NextRun ==
    /\ phase = "each"
    /\ cr_pc \in {"done", "failed"}
    /\ outcomes' = Append(outcomes, cr_pc)
    /\ cr_pc' = IF todo = <<>> THEN "end" ELSE "idle"
    /\ UNCHANGED <<dirs, files, umask, pkg, environ, args, wt_pc, wt_i,
                   listing, written, err, log, calls, fs0, prev, cr_args,
                   cr_k, cr_glob, atStart, todo, phase, fsAll>>
    /\ UNCHANGED <<sink, runVars>>
    /\ UNCHANGED <<mainVars, svVars>>

NextCreate ==
    \/ CreateStart \/ CreateIter \/ WTIter \/ WTReturn \/ CreateRendered
    \/ CreateRaised \/ CreateLoopEnd \/ CreateChmod \/ CreateExit
    \/ Restart \/ NextRun

SpecCreate == InitCreate /\ [][NextCreate]_vars

-----------------------------------------------------------------------------
(* Claims about create, under SpecCreate *)

\* C7: when the location of a template set cannot be resolved, the run fails
\* and nothing of that set has been created under the output directory: not
\* a file, and not the category directory that create prepares for the set.
C7_NothingCreatedForMissingSet ==
    (cr_pc = "failed" /\ err.kind = "ValueError") =>
        \A p \in DOMAIN dirs \cup DOMAIN files :
            IsPrefix(args.subdir, p) => p \in DOMAIN atStart.dirs \cup DOMAIN atStart.files

\* C10: the directory after create with category all is, path for path,
\* content for content and mode for mode, the directory after create with
\* equil, then prod, then scripts, the single runs being taken up to the
\* first one that fails; all fails exactly when one of them does.
C10_AllEqualsEach ==
    (/\ phase = "each"
     /\ \A k \in 1..Len(outcomes) : outcomes[k] = "done"
     /\ cr_pc \in {"failed", "end"}) =>
        /\ files = fsAll.files
        /\ dirs = fsAll.dirs
        /\ fsAll.pc = "done" <=> cr_pc = "end"

C10_Witness ==
    /\ cr_pc = "end"
    /\ fsAll.pc = "done"
    /\ Cardinality(DOMAIN files \ DOMAIN fs0.f) >= 3
    /\ \E p \in DOMAIN files \ DOMAIN fs0.f :
        Suffix(Name(p)) = w_sh /\ files[p].mode = FILE_MODE

-----------------------------------------------------------------------------
(* The permissions after create *)

\* the .sh entries directly under outdir/Scripts
ShUnderScripts ==
    {p \in DOMAIN dirs \cup DOMAIN files :
        Parent(p) = cr_args.outdir \o <<w_Scripts>> /\ Suffix(Name(p)) = w_sh}

\* the bits a path had when the run began, or the bits open("w") gives a
\* file the run created
ModeWithoutChmod(p) ==
    IF p \in DOMAIN atStart.files
    THEN atStart.files[p].mode
    ELSE NewFileBits \ umask

\* C11 as stated: after a run that includes scripts, the script outputs of
\* this run have FILE_MODE and no other file has had its bits changed by
\* the run, the files that were already there included.
C11_OnlyOutputsOfThisRun ==
    (cr_pc = "done" /\ ChangesModes(cr_args.outtype)) =>
        /\ \A p \in Outputs : files[p].mode = FILE_MODE
        /\ \A p \in DOMAIN files \ Outputs : files[p].mode = ModeWithoutChmod(p)

\* C11: after a run that includes scripts, every script output of the run is
\* a .sh entry directly under outdir/Scripts, every .sh file there has
\* FILE_MODE, whether this run wrote it or it was there before, and no other
\* file or earlier directory has had its bits changed by the run.
C11_EveryShUnderScripts ==
    (cr_pc = "done" /\ ChangesModes(cr_args.outtype)) =>
        /\ Outputs \subseteq ShUnderScripts
        /\ \A p \in DOMAIN files :
            files[p].mode = IF p \in ShUnderScripts THEN FILE_MODE
                            ELSE ModeWithoutChmod(p)
        /\ \A p \in DOMAIN atStart.dirs \ ShUnderScripts :
            dirs[p] = atStart.dirs[p]

C11_Witness ==
    /\ cr_pc = "done"
    /\ ChangesModes(cr_args.outtype)
    /\ Outputs # {}
    /\ \E p \in ShUnderScripts \ Outputs :
        /\ atStart.files[p].mode # FILE_MODE
        /\ files[p].mode = FILE_MODE
    /\ \E p \in DOMAIN files \ DOMAIN atStart.files :
        Suffix(Name(p)) = w_in /\ files[p].mode # FILE_MODE

\* the selection of the run is scripts or all
IncludesScripts == cr_args.outtype \in {w_scripts, w_all}

\* a step of a run that changes the permission bits of a file
ChangesBits ==
    /\ phase' = phase
    /\ \E p \in DOMAIN files \cap DOMAIN files' : files'[p].mode # files[p].mode

\* a step of a run that creates a file or changes the content of one
WritesFile ==
    /\ phase' = phase
    /\ \/ DOMAIN files' # DOMAIN files
       \/ \E p \in DOMAIN files : files'[p].content # files[p].content

\* C12: the permission step is entered only when the selection is scripts or
\* all and every template set of the selection has been rendered; bits are
\* changed in that step only; once in it the run writes no file and goes
\* nowhere but to its end; and a run ends through that step exactly when its
\* selection is scripts or all, never for equil or prod.
C12_FixupIsLastStep ==
    /\ [](cr_pc = "chmod" =>
            /\ IncludesScripts
            /\ cr_k = Len(TemplateName(cr_args.outtype))
            /\ wt_pc = "idle")
    /\ [][ChangesBits => cr_pc = "chmod"]_vars
    /\ [][cr_pc = "chmod" => (~WritesFile /\ cr_pc' \in {"chmod", "done"})]_vars
    /\ [][(cr_pc # "done" /\ cr_pc' = "done") =>
            (cr_pc = "chmod" <=> IncludesScripts)]_vars

C12_Witness ==
    /\ cr_pc = "chmod"
    /\ cr_args.outtype = w_all
    /\ \E p \in Outputs : p \notin cr_glob /\ files[p].mode = FILE_MODE
    /\ \E p \in DOMAIN files \ DOMAIN atStart.files : Suffix(Name(p)) = w_in

-----------------------------------------------------------------------------
(* The failures of create before rendering *)

\* C13: create for amber without AMBERHOME in the environment fails with
\* KeyError and never reaches the loop: whenever the run has failed, the
\* directories and files are those present when it began, so no category
\* directory and no output file has been created.
C13_AmberhomeBeforeRendering ==
    (cr_args.sim_prog = w_amber /\ "AMBERHOME" \notin environ) =>
        /\ cr_pc \in {"idle", "failed", "end"}
        /\ cr_pc = "failed" =>
            /\ err.kind = "KeyError"
            /\ dirs = atStart.dirs
            /\ files = atStart.files
        /\ dirs = fs0.d
        /\ files = fs0.f

C13_Witness ==
    /\ cr_args.sim_prog = w_amber
    /\ "AMBERHOME" \notin environ
    /\ cr_pc = "failed"
    /\ err.kind = "KeyError"
    /\ cr_args.outtype = w_all
    /\ \A c \in {w_equil, w_prod, w_scripts} :
        <<w_templates, w_amber, c>> \in DOMAIN pkg
    /\ DOMAIN files # {}

\* C14: create with a simulation program outside the accepted values is
\* ended by click with a usage error and a non-zero exit status before the
\* body runs: no directory and no file is created or changed, the log file
\* is not created and nothing is logged.
C14_BadSimprogWritesNothing ==
    (cr_pc # "none" /\ cr_args.sim_prog \notin {w_amber, w_charmm, w_gmx}) =>
        /\ cr_pc \in {"idle", "failed", "end"}
        /\ cr_pc = "failed" => (err.kind = "UsageError" /\ ExitCode(err) # 0)
        /\ dirs = fs0.d
        /\ files = fs0.f
        /\ sink = "none"
        /\ log = <<>>

C14_Witness ==
    /\ cr_args.sim_prog = w_badprog
    /\ cr_args.outtype = w_all
    /\ cr_pc = "failed"
    /\ err = Error("UsageError", w_badprog)
    /\ ExitCode(err) = 2

-----------------------------------------------------------------------------
(* The outputs of a successful create *)

\* the lines in the log file at the default level: DEBUG is not recorded
LogFile == SelectSeq(log, LAMBDA m : m[1] # "DEBUG")

\* C15 as stated: after a successful create with category equil or prod each
\* template of the set has its output at outdir/<Category>/<base>/<base>.in,
\* with category scripts at outdir/Scripts/<base>.sh, whatever the output
\* directory is, and the log file exists and is not empty.
C15_OutputPaths ==
    (cr_pc = "done" /\ cr_args.outtype \in {w_equil, w_prod, w_scripts}) =>
        /\ Len(written) = Len(listing)
        /\ \A i \in 1..Len(written) :
            LET base == Stem(written[i][1])
            IN  /\ written[i][2] \in DOMAIN files
                /\ written[i][2] =
                    IF cr_args.outtype = w_scripts
                    THEN cr_args.outdir \o <<w_Scripts, base \o w_sh>>
                    ELSE cr_args.outdir \o
                            <<Title(cr_args.outtype), base, base \o w_in>>
        /\ sink = "other"
        /\ LogFile # <<>>

-----------------------------------------------------------------------------
(* libs/utils.py: run_command, as solvate calls it *)

MaxOut  == 2
MaxRuns == 2

w_solvate == <<"s","o","l","v","a","t","e">>
w_log     == <<".","l","o","g">>
w_tleap   == <<"t","l","e","a","p">>
w_bin     == <<"b","i","n">>

\* the content of a file is a sequence of strings: characters, the chunks a
\* process writes and the lines of the logger
Chunks == {"stdout\n", "stderr\n"}

\* returncode of subprocess.run: 0, an exit status, minus a signal number
ExitCodes == {0, 1, -9}

LineGenerating == "INFO | Generating AMBER topology and coordinate files.\n"
LineRunning    == "INFO | Running bin/tleap\n"
LineNotFound   == "ERROR | Could not find tleap\n"
LineNotRun     == "ERROR | Could not run tleap\n"

None == <<>>

\* shutil.which() taken to find every command
Which_Always(command, path) == <<w_bin, command>>

\* line 60: shutil.which(command), the executable's path or None
Which(command, path) == IF command \in path THEN <<w_bin, command>> ELSE None

\* Path.open(mode="w") in the place of mode="a"
OpenA_Truncate(f, um, p) == OpenW(f, um, p)

\* line 64: Path.open(mode="a"): the file is created or keeps its content
OpenA(f, um, p) ==
    [q \in DOMAIN f \cup {p} |->
        IF q \in DOMAIN f THEN f[q]
        ELSE [content |-> <<>>, mode |-> NewFileBits \ um]]

\* the handle left open when the block is left
AfterWith_Leak(h) == h

\* line 64: leaving the with block closes the handle, on return and on raise
AfterWith(h) == h - 1

\* a failed command run again
AfterExit_Retry(st) == IF st # 0 THEN "open" ELSE "done"

\* check=True taken to mean a positive status
AfterExit_Positive(st) == IF st > 0 THEN "failed" ELSE "done"

\* lines 66-71: check=True raises CalledProcessError for a returncode that
\* is not zero
AfterExit(st) == IF st # 0 THEN "failed" ELSE "done"

\* a logger line reaches the file when the logger's file sink is that file
Logged(f, snk, p, line) ==
    IF snk = "cmdlog" THEN Write(f, p, <<line>>) ELSE f

\* a file as a caller can observe it
FileNow(f, p) ==
    IF p \in DOMAIN f THEN [exists |-> TRUE, content |-> f[p].content]
    ELSE [exists |-> FALSE, content |-> <<>>]

\* cmd_solvate.py line 182 and utils.py lines 58-62 and 72-74: solvate calls
\* run_command(command[sim_prog], infile=filename, cmdlog=logname); the
\* command is looked up, and a command that is not found raises
\* FileNotFoundError, which is logged and raised again
RunCall ==
    /\ rc_pc = "idle"
    /\ runs < MaxRuns
    /\ LET cmd == Which(rc_args.command, onPath)
           f1  == Logged(files, sink, rc_args.cmdlog, LineGenerating)
           l1  == Append(log, <<"INFO", "Generating AMBER topology and coordinate files.", <<>>>>)
       IN  /\ rc_cmd' = cmd
           /\ IF cmd = None
              THEN /\ rc_pc' = "failed"
                   /\ err' = Error("FileNotFoundError", <<>>)
                   /\ files' = Logged(f1, sink, rc_args.cmdlog, LineNotFound)
                   /\ log' = Append(l1, <<"ERROR", "Could not find", rc_args.command>>)
              ELSE /\ rc_pc' = "open"
                   /\ err' = NoErr
                   /\ files' = f1
                   /\ log' = l1
    /\ before' = FileNow(files, rc_args.cmdlog)
    /\ opens' = 0
    /\ started' = 0
    /\ emitted' = <<>>
    /\ status' = <<>>
    /\ UNCHANGED <<dirs, umask, pkg, environ, args, wt_pc, wt_i, listing,
                   written, calls, fs0, prev, cr_pc, cr_args, cr_k, cr_glob,
                   atStart, outcomes, todo, phase, fsAll, sink, rc_args,
                   onPath, handles, runs, sv_err>>
    /\ UNCHANGED <<mainVars, svVars>>

\* lines 64-65 and 72-74: cmdlog.open("a").  The FileNotFoundError of a
\* missing parent directory is caught by the same clause as the one of line
\* 62; another OSError leaves run_command unlogged.
RunOpen ==
    /\ rc_pc = "open"
    /\ opens' = opens + 1
    /\ LET e == OpenError(dirs, files, rc_args.cmdlog)
       IN  IF e = "FileNotFoundError"
           THEN /\ rc_pc' = "failed"
                /\ err' = Error(e, rc_args.cmdlog)
                /\ files' = Logged(files, sink, rc_args.cmdlog, LineNotFound)
                /\ log' = Append(log, <<"ERROR", "Could not find", rc_args.command>>)
                /\ UNCHANGED handles
           ELSE IF e # "none"
           THEN /\ rc_pc' = "failed"
                /\ err' = Error(e, rc_args.cmdlog)
                /\ UNCHANGED <<files, log, handles>>
           ELSE /\ rc_pc' = "opened"
                /\ handles' = handles + 1
                /\ files' = Logged(OpenA(files, umask, rc_args.cmdlog), sink,
                                   rc_args.cmdlog, LineRunning)
                /\ log' = Append(log, <<"INFO", "Running", rc_cmd>>)
                /\ UNCHANGED err
    /\ UNCHANGED <<dirs, umask, pkg, environ, args, wt_pc, wt_i, listing,
                   written, calls, fs0, prev, cr_pc, cr_args, cr_k, cr_glob,
                   atStart, outcomes, todo, phase, fsAll, sink, rc_args,
                   rc_cmd, onPath, started, emitted, status, before, runs,
                   sv_err>>
    /\ UNCHANGED <<mainVars, svVars>>

\* lines 66-71: subprocess.run starts the process, its stdout and stderr
\* both on the handle
RunSpawn ==
    /\ rc_pc = "opened"
    /\ started' = started + 1
    /\ rc_pc' = "running"
    /\ UNCHANGED <<dirs, files, umask, pkg, environ, args, wt_pc, wt_i,
                   listing, written, err, log, calls, fs0, prev, cr_pc,
                   cr_args, cr_k, cr_glob, atStart, outcomes, todo, phase,
                   fsAll, sink, rc_args, rc_cmd, onPath, handles, opens,
                   emitted, status, before, runs, sv_err>>
    /\ UNCHANGED <<mainVars, svVars>>

\* lines 68-69: the process writes to stdout or to stderr; the descriptor
\* was opened for appending
ProcWrite ==
    /\ rc_pc = "running"
    /\ Len(emitted) < MaxOut
    /\ \E c \in Chunks :
        /\ files' = Write(files, rc_args.cmdlog, <<c>>)
        /\ emitted' = Append(emitted, c)
    /\ UNCHANGED <<dirs, umask, pkg, environ, args, wt_pc, wt_i, listing,
                   written, err, log, calls, fs0, prev, cr_pc, cr_args, cr_k,
                   cr_glob, atStart, outcomes, todo, phase, fsAll, sink,
                   rc_pc, rc_args, rc_cmd, onPath, handles, opens, started,
                   status, before, runs, sv_err>>
    /\ UNCHANGED <<mainVars, svVars>>

\* lines 64-71 and 75-77: the process ends; the with block is left and the
\* handle closed; a returncode that is not zero raises CalledProcessError,
\* which is logged and raised again
ProcExit ==
    /\ rc_pc = "running"
    /\ \E st \in ExitCodes :
        /\ status' = <<st>>
        /\ rc_pc' = AfterExit(st)
        /\ IF AfterExit(st) = "done"
           THEN UNCHANGED <<err, files, log>>
           ELSE /\ err' = Error("CalledProcessError", rc_cmd)
                /\ files' = Logged(files, sink, rc_args.cmdlog, LineNotRun)
                /\ log' = Append(log, <<"ERROR", "Could not run", rc_args.command>>)
    /\ handles' = AfterWith(handles)
    /\ UNCHANGED <<dirs, umask, pkg, environ, args, wt_pc, wt_i, listing,
                   written, calls, fs0, prev, cr_pc, cr_args, cr_k, cr_glob,
                   atStart, outcomes, todo, phase, fsAll, sink, rc_args,
                   rc_cmd, onPath, opens, started, emitted, before, runs,
                   sv_err>>
    /\ UNCHANGED <<mainVars, svVars>>

\* cmd_solvate.py line 182: run_command has returned or raised; nothing in
\* cli catches the exception, which leaves the command
SolvateEnd ==
    /\ rc_pc \in {"done", "failed"}
    /\ sv_err' = err
    /\ runs' = runs + 1
    /\ IF sv_pc = "run"
       THEN /\ rc_pc' = "returned"
            /\ sv_pc' = "exited"
            /\ sv_fail' = IF rc_pc = "failed" THEN "run" ELSE ""
       ELSE /\ rc_pc' = "idle"
            /\ UNCHANGED <<sv_pc, sv_fail>>
    /\ UNCHANGED <<dirs, files, umask, pkg, environ, args, wt_pc, wt_i,
                   listing, written, err, log, calls, fs0, prev, cr_pc,
                   cr_args, cr_k, cr_glob, atStart, outcomes, todo, phase,
                   fsAll, sink, rc_args, rc_cmd, onPath, handles, opens,
                   started, emitted, status, before>>
    /\ UNCHANGED <<mainVars, sv_args, sv_k, sv_kept>>

\* the command log of solvate: outdir / prefix.with_suffix(".log")
Logname == <<w_out>> \o WithSuffix(<<w_solvate>>, w_log)

\* The disks solvate may call run_command on: the output directory without
\* a log; with the log of an earlier run; no output directory; a directory
\* where the log belongs.
RunDisks ==
    { [d |-> [p \in {<<w_out>>} |-> FILE_MODE], f |-> <<>>],
      [d |-> [p \in {<<w_out>>} |-> FILE_MODE],
       f |-> [p \in {Logname} |-> F(w_old, {"ur", "uw"})]],
      [d |-> <<>>, f |-> <<>>],
      [d |-> [p \in {<<w_out>>, Logname} |-> FILE_MODE], f |-> <<>>] }

\* solvate is about to call run_command; the logger has no file sink, one
\* on another file, or one on the command log itself, which then exists
InitRun ==
    /\ \E disk \in RunDisks :
        /\ dirs = disk.d
        /\ files = disk.f
        /\ fs0 = disk
        /\ sink \in IF Logname \in DOMAIN disk.f
                    THEN {"none", "other", "cmdlog"}
                    ELSE {"none", "other"}
    /\ umask \in Umasks
    /\ onPath \in {{}, {w_tleap}}
    /\ rc_args = [command |-> w_tleap,
                  infile  |-> <<w_out>> \o WithSuffix(<<w_solvate>>, w_in),
                  cmdlog  |-> Logname]
    /\ rc_pc = "idle"
    /\ rc_cmd = None
    /\ handles = 0
    /\ opens = 0
    /\ started = 0
    /\ emitted = <<>>
    /\ status = <<>>
    /\ before = FileNow(files, Logname)
    /\ runs = 0
    /\ sv_err = NoErr
    /\ NoMain
    /\ NoSolvate
    /\ pkg = <<>>
    /\ environ = {"AMBERHOME"}
    /\ args = [data |-> <<>>, subdir |-> <<>>, package_path |-> <<>>,
               template |-> <<>>]
    /\ wt_pc = "idle"
    /\ wt_i = 0
    /\ listing = <<>>
    /\ written = <<>>
    /\ err = NoErr
    /\ log = <<>>
    /\ calls = 0
    /\ prev = NoSnapshot
    /\ cr_pc = "none"
    /\ cr_args = NoCreate
    /\ cr_k = 0
    /\ cr_glob = {}
    /\ atStart = NoSnapshot
    /\ outcomes = <<>>
    /\ todo = <<>>
    /\ phase = "none"
    /\ fsAll = NoSnapshot

NextRunCommand == RunCall \/ RunOpen \/ RunSpawn \/ ProcWrite \/ ProcExit \/ SolvateEnd

SpecRun == InitRun /\ [][NextRunCommand]_vars

-----------------------------------------------------------------------------
(* The outcomes of run_command *)

\* the call has returned or raised
Ended == rc_pc \in {"done", "failed"}

\* the lines the logger wrote into the command log during the call, before
\* and after the output of the process; none unless its file sink is that file
OwnLinesBefore ==
    IF sink # "cmdlog" THEN <<>>
    ELSE IF rc_cmd = None THEN <<LineGenerating, LineNotFound>>
    ELSE <<LineGenerating, LineRunning>>

OwnLinesAfter ==
    IF sink = "cmdlog" /\ rc_pc = "failed" /\ started > 0
    THEN <<LineNotRun>> ELSE <<>>

\* C16 as stated: a command that resolves to no executable makes run_command
\* fail with FileNotFoundError with no process started and the log file not
\* opened, not created and not written: the file is as it was before the
\* call; the exception leaves solvate.
C16_NotFoundLeavesLogUntouched ==
    /\ (Ended /\ rc_args.command \notin onPath) =>
        /\ rc_pc = "failed"
        /\ err.kind = "FileNotFoundError"
        /\ started = 0
        /\ opens = 0
        /\ handles = 0
        /\ FileNow(files, rc_args.cmdlog) = before
    /\ (rc_pc = "idle" /\ runs > 0 /\ rc_args.command \notin onPath) =>
        sv_err.kind = "FileNotFoundError"

\* C16: a command that resolves to no executable makes run_command fail with
\* FileNotFoundError with no process started and without run_command opening
\* or creating the log file; the file gets nothing but the logger's own two
\* lines of the call, and those only when the logger's file sink is that
\* file; the exception leaves solvate.
C16_NotFoundOpensNothing ==
    /\ (Ended /\ rc_args.command \notin onPath) =>
        /\ rc_pc = "failed"
        /\ err.kind = "FileNotFoundError"
        /\ started = 0
        /\ opens = 0
        /\ handles = 0
        /\ FileNow(files, rc_args.cmdlog).exists = before.exists
        /\ FileNow(files, rc_args.cmdlog).content =
                before.content \o OwnLinesBefore
    /\ (rc_pc = "idle" /\ runs > 0 /\ rc_args.command \notin onPath) =>
        sv_err.kind = "FileNotFoundError"

C16_Witness ==
    /\ rc_pc = "idle"
    /\ runs = 1
    /\ rc_args.command \notin onPath
    /\ sv_err.kind = "FileNotFoundError"
    /\ sink = "cmdlog"
    /\ files[rc_args.cmdlog].content = w_old \o <<LineGenerating, LineNotFound>>

\* C17: a call whose process was started returns normally exactly when the
\* returncode is zero; every other returncode, a positive exit status or
\* the negative one of a signal, ends the call with CalledProcessError,
\* which is not the exception of a command that was not found; and no call
\* returns normally without a process that ended with zero.
C17_ReturnsIffZero ==
    Ended =>
        /\ started = 1 => (rc_pc = "done" <=> status = <<0>>)
        /\ (started = 1 /\ status # <<0>>) =>
                (err.kind = "CalledProcessError" /\ err.kind # "FileNotFoundError")
        /\ rc_pc = "done" => (started = 1 /\ status = <<0>> /\ err = NoErr)

C17_Witness ==
    /\ rc_pc = "failed"
    /\ started = 1
    /\ status = <<-9>>
    /\ err.kind = "CalledProcessError"
    /\ emitted # <<>>

\* C18 as stated: after a call that ran the command, the log file holds what
\* it held before the call followed by what the process wrote, in the order
\* written, and nothing else; on success and on failure.
C18_BeforeThenOutput ==
    (Ended /\ started = 1) =>
        /\ rc_args.cmdlog \in DOMAIN files
        /\ files[rc_args.cmdlog].content = before.content \o emitted

\* C18: after a call that ran the command, the log file holds what it held
\* before the call, then what the process wrote, in the order written; the
\* only other text is the logger's own lines of the call when the logger's
\* file sink is that file: two before the output and, on failure, one after
\* it.  Nothing that was there is truncated or overwritten, on success and
\* on failure alike, call after call.
C18_AppendsOutput ==
    (Ended /\ started = 1) =>
        /\ rc_args.cmdlog \in DOMAIN files
        /\ files[rc_args.cmdlog].content =
                before.content \o OwnLinesBefore \o emitted \o OwnLinesAfter

C18_Witness ==
    /\ rc_pc = "failed"
    /\ runs = 1
    /\ sink = "cmdlog"
    /\ emitted = <<"stderr\n", "stdout\n">>
    /\ Len(before.content) > Len(w_old) + 2
    /\ files[rc_args.cmdlog].content =
            before.content \o <<LineGenerating, LineRunning>> \o emitted \o <<LineNotRun>>

\* C19: a call that resolved the executable has called cmdlog.open() exactly
\* once when it ends, a call that did not has not called it; no call holds
\* a handle when it has returned or raised, after success, after a failed
\* command and after a failed open alike; and never is more than one handle
\* open.
C19_OpenedOnceAndClosed ==
    /\ handles \in {0, 1}
    /\ handles = 1 <=> rc_pc \in {"opened", "running"}
    /\ Ended => opens = (IF rc_cmd = None THEN 0 ELSE 1)

C19_Witness ==
    /\ rc_pc = "failed"
    /\ runs = 1
    /\ status = <<1>>
    /\ opens = 1
    /\ handles = 0

\* C20 as stated: a call ends in exactly one of three outcomes: it returned,
\* it raised the error of an executable that was not found, or it raised
\* the error of a command that failed; it has started at most one process
\* and opened the log at most once.
C20_ThreeOutcomes ==
    /\ started <= 1
    /\ opens <= 1
    /\ Ended =>
        \/ rc_pc = "done" /\ err = NoErr /\ status = <<0>>
        \/ rc_pc = "failed" /\ started = 0 /\ err.kind = "FileNotFoundError"
        \/ rc_pc = "failed" /\ started = 1 /\ err.kind = "CalledProcessError"

\* the outcome of a call that has ended
Outcome ==
    IF rc_pc = "done" THEN "succeeded"
    ELSE IF rc_cmd = None THEN "executable-not-found"
    ELSE IF started = 0 THEN "log-not-opened"
    ELSE "command-failed"

\* C20: a call goes from pending to one outcome and stays there: it
\* returned, the executable was not found, the command failed, or the log
\* file could not be opened (and then no process was started).  Once ended
\* the call looks nothing up, opens nothing and starts nothing, and its
\* outcome does not change; in all it starts at most one process.
C20_OneOutcomeNoRetry ==
    /\ [](started <= 1 /\ opens <= 1)
    /\ [](Ended =>
            \/ Outcome = "succeeded" /\ err = NoErr /\ status = <<0>>
            \/ Outcome = "executable-not-found" /\ err.kind = "FileNotFoundError"
                    /\ started = 0 /\ opens = 0
            \/ Outcome = "command-failed" /\ err.kind = "CalledProcessError"
                    /\ status # <<0>>
            \/ Outcome = "log-not-opened" /\ opens = 1 /\ started = 0
                    /\ err.kind \in {"FileNotFoundError", "IsADirectoryError",
                                     "NotADirectoryError"})
    /\ [][Ended =>
            /\ rc_pc' \in {rc_pc, "idle"}
            /\ started' = started
            /\ opens' = opens
            /\ rc_cmd' = rc_cmd
            /\ (err' = err)]_vars
    /\ [][rc_pc = "idle" => (rc_pc' \in {"idle", "open", "failed"})]_vars
    /\ [][(rc_pc \in {"open", "opened", "running"}) => (rc_pc' # "idle")]_vars

C20_Witness ==
    /\ rc_pc = "failed"
    /\ runs = 1
    /\ Outcome = "command-failed"
    /\ sv_err = NoErr
    /\ Len(log) >= 5

-----------------------------------------------------------------------------
(* write_template: the file of a template that fails *)

\* the output path of the template the call failed on
FailedOutput == InputFile(args.subdir, args.package_path, err.name)

\* C26: when a template fails to load, its output file has been opened and
\* so created or truncated before: an empty file is at the template's output
\* path, and what a file at that path held before the call is lost.
C26_TruncatedBeforeLoad ==
    (wt_pc = "failed" /\ err.kind = "TemplateSyntaxError") =>
        /\ FailedOutput \in DOMAIN files
        /\ files[FailedOutput].content = <<>>

C26_Witness ==
    /\ cr_pc = "none"
    /\ wt_pc = "failed"
    /\ err.kind = "TemplateSyntaxError"
    /\ calls = 1
    /\ FailedOutput \in DOMAIN fs0.f
    /\ fs0.f[FailedOutput].content = w_old
    /\ files[FailedOutput].content = <<>>
    /\ written # <<>>

-----------------------------------------------------------------------------
(* create: the order of the sets and a failure among them *)

\* the files the current run has reported as written
ReportedThisRun ==
    {log[i][3] : i \in {j \in (Len(atStart.log) + 1)..Len(log) :
                            log[j][2] = "Writing script to"}}

\* C25: with category all, the k-th set rendered is the k-th of equil, prod,
\* scripts; a run that has failed renders no further set and does not reach
\* the permission step or the end of a successful run; no step of a run
\* removes a file or a directory, and the files the run reported as written
\* are on disk, not empty, when it has failed.
C25_OrderAndNoRollback ==
    /\ []((cr_pc = "render" /\ cr_args.outtype = w_all) =>
            /\ cr_k < 3
            /\ args.template = <<w_equil, w_prod, w_scripts>>[cr_k + 1]
            /\ args.subdir = cr_args.outdir \o <<Title(args.template)>>)
    /\ [](cr_pc = "failed" =>
            \A f \in ReportedThisRun :
                f \in DOMAIN files /\ files[f].content # <<>>)
    /\ [][cr_pc = "failed" =>
            (cr_pc' \in {"failed", "idle", "end"} /\ wt_pc' = wt_pc)]_vars
    /\ [][(cr_pc \in {"loop", "render"}) => (cr_k' \in {cr_k, cr_k + 1})]_vars
    /\ [][phase' = phase =>
            /\ DOMAIN files \subseteq DOMAIN files'
            /\ DOMAIN dirs \subseteq DOMAIN dirs']_vars

C25_Witness ==
    /\ cr_pc = "failed"
    /\ cr_args.outtype = w_all
    /\ cr_k = 1
    /\ err.kind = "TemplateSyntaxError"
    /\ Cardinality(ReportedThisRun) >= 2
    /\ \E f \in ReportedThisRun : f \notin DOMAIN atStart.files

-----------------------------------------------------------------------------
(* run_command: what FileNotFoundError tells the caller *)

\* C27 as stated: a call ends with FileNotFoundError, logged as a command
\* that could not be found, only when shutil.which found nothing; a call
\* that resolved the executable never ends so, a log file whose parent
\* directory is missing included.
C27_NotFoundOnlyWhenUnresolved ==
    (Ended /\ rc_cmd # None) =>
        /\ err.kind # "FileNotFoundError"
        /\ log[Len(log)][2] # "Could not find"

-----------------------------------------------------------------------------
(* cli.py: main and ComplexCLI; commands/cmd_setup.py: the init command *)

MaxInvocations == 2

w_create   == <<"c","r","e","a","t","e">>
w_setup    == <<"s","e","t","u","p">>
w_init     == <<"i","n","i","t">>
w_bad      == <<"b","a","d","_","s","u","b","c","o","m","m","a","n","d">>
w_h        == <<"-","h">>
w_help     == <<"-","-","h","e","l","p">>
w_Prep     == <<"P","r","e","p">>
w_Equil    == <<"E","q","u","i","l">>
w_Prod     == <<"P","r","o","d">>
w_Analysis == <<"A","n","a","l","y","s","i","s">>
w_min      == <<"m","i","n">>
w_md       == <<"m","d">>

\* format(y, "d"): the decimal digits of a natural number
Digit(d) == <<"0","1","2","3","4","5","6","7","8","9">>[d + 1]

RECURSIVE Dec(_)
Dec(n) == IF n < 10 THEN <<Digit(n)>> ELSE Dec(n \div 10) \o <<Digit(n % 10)>>

\* cmd_setup.py lines 94, 101, 102 and 111
Directories   == <<w_Prep, w_Equil, w_Prod, w_Analysis, w_Scripts>>
Equilibration == <<w_min, w_md>>
Subsection    == <<1, 2, 11, 12, 13, 14, 15, 16>>
Production    == <<w_mdst, w_mdprod>>

\* no name left out of the product
Skipped_None(name) == FALSE

\* line 104: the name the generator leaves out
Skipped(name) == name = <<"m","i","n","1","6">>

\* line 104: product(equilibration, subsection) in its order, as names
ProductNames ==
    [i \in 1..(Len(Equilibration) * Len(Subsection)) |->
        Equilibration[((i - 1) \div Len(Subsection)) + 1] \o
            Dec(Subsection[((i - 1) % Len(Subsection)) + 1])]

\* lines 94-115: the directories init makes, in the order it makes them
InitDirectories(outdir) ==
    LET equil == SelectSeq(ProductNames, LAMBDA n : ~Skipped(n))
    IN  [i \in 1..Len(Directories) |-> outdir \o <<Directories[i]>>] \o
        [i \in 1..Len(equil) |-> outdir \o <<w_Equil, equil[i]>>] \o
        [i \in 1..Len(Production) |-> outdir \o <<w_Prod, Production[i]>>]

\* cli.py: list_commands, the modules cmd_<name>.py of the commands folder
Modules == {w_create, w_setup, w_solvate}

\* -h and --help of help_option()
HelpOptions == {w_h, w_help}

\* every name taken for a command
GetCommand_Any(name, imp) == name

\* cli.py lines 89-107: get_command imports cmd_<name>; ImportError gives None
GetCommand(name, imp) == IF name \in imp THEN name ELSE None

\* cli.py and cmd_setup.py line 91: main is invoked.  Without arguments or
\* with the help option it prints the usage and exits with 0; a name that
\* get_command does not resolve ends in click's usage error; otherwise the
\* body of the subcommand is entered, for setup with config_logger.
MainInvoke ==
    /\ m_pc = "idle"
    /\ invocations < MaxInvocations
    /\ invocations' = invocations + 1
    /\ err' = NoErr
    /\ IF m_argv = <<>> \/ m_argv[1] \in HelpOptions
       THEN /\ m_out' = "Usage:"
            /\ m_exit' = <<0>>
            /\ m_pc' = "exited"
            /\ m_body' = None
            /\ UNCHANGED <<sink, in_i>>
       ELSE IF GetCommand(m_argv[1], importable) = None
       THEN /\ m_out' = "Error:"
            /\ m_exit' = <<2>>
            /\ m_pc' = "exited"
            /\ m_body' = None
            /\ UNCHANGED <<sink, in_i>>
       ELSE /\ m_out' = ""
            /\ m_exit' = <<>>
            /\ m_body' = GetCommand(m_argv[1], importable)
            /\ IF GetCommand(m_argv[1], importable) = w_setup
               THEN m_pc' = "init" /\ in_i' = 0 /\ sink' = "other"
               ELSE m_pc' = "body" /\ UNCHANGED <<sink, in_i>>
    /\ UNCHANGED <<dirs, files, umask, pkg, environ, args, wt_pc, wt_i,
                   listing, written, log, calls, fs0, prev, cr_pc, cr_args,
                   cr_k, cr_glob, atStart, outcomes, todo, phase, fsAll,
                   m_argv, importable, in_args>>
    /\ UNCHANGED <<runVars, svVars>>

\* cmd_setup.py lines 95-98, 106-108 and 112-115: the next directory of the
\* list is logged and made; an exception of mkdir leaves the command
InitMkdir ==
    /\ m_pc = "init"
    /\ in_i < Len(InitDirectories(in_args.outdir))
    /\ LET directory == InitDirectories(in_args.outdir)[in_i + 1]
       IN  /\ log' = Append(log, Info("Creating", directory))
           /\ IF MkdirError(dirs, files, directory) # "none"
              THEN /\ err' = Error(MkdirError(dirs, files, directory), directory)
                   /\ m_exit' = <<1>>
                   /\ m_pc' = "exited"
                   /\ UNCHANGED <<dirs, in_i>>
              ELSE /\ dirs' = Mkdir(dirs, files, umask, directory, FILE_MODE)
                   /\ in_i' = in_i + 1
                   /\ UNCHANGED <<err, m_exit, m_pc>>
    /\ UNCHANGED <<files, umask, pkg, environ, args, wt_pc, wt_i, listing,
                   written, calls, fs0, prev, cr_pc, cr_args, cr_k, cr_glob,
                   atStart, outcomes, todo, phase, fsAll, sink, m_argv, m_out,
                   m_body, importable, in_args, invocations>>
    /\ UNCHANGED <<runVars, svVars>>

\* cmd_setup.py line 117: every directory is made and init returns
InitReturn ==
    /\ m_pc = "init"
    /\ in_i = Len(InitDirectories(in_args.outdir))
    /\ log' = Append(log, <<"SUCCESS", "Simulation subdirectories created.", <<>>>>)
    /\ m_exit' = <<0>>
    /\ m_pc' = "exited"
    /\ UNCHANGED <<dirs, files, umask, pkg, environ, args, wt_pc, wt_i,
                   listing, written, err, calls, fs0, prev, cr_pc, cr_args,
                   cr_k, cr_glob, atStart, outcomes, todo, phase, fsAll, sink,
                   m_argv, m_out, m_body, importable, in_args, in_i,
                   invocations>>
    /\ UNCHANGED <<runVars, svVars>>

\* the body of create or of solvate returns or raises (their steps are
\* those of SpecCreate and of the solvate specification)
MainBodyEnd ==
    /\ m_pc = "body"
    /\ \E code \in {0, 1} : m_exit' = <<code>>
    /\ m_pc' = "exited"
    /\ UNCHANGED <<dirs, files, umask, pkg, environ, args, wt_pc, wt_i,
                   listing, written, err, log, calls, fs0, prev, cr_pc,
                   cr_args, cr_k, cr_glob, atStart, outcomes, todo, phase,
                   fsAll, sink, m_argv, m_out, m_body, importable, in_args,
                   in_i, invocations>>
    /\ UNCHANGED <<runVars, svVars>>

\* the same command line is given again
MainAgain ==
    /\ m_pc = "exited"
    /\ invocations < MaxInvocations
    /\ prev' = [dirs |-> dirs, files |-> files, written |-> <<>>,
                pc |-> IF m_exit = <<0>> THEN "done" ELSE "failed"]
    /\ m_pc' = "idle"
    /\ UNCHANGED <<dirs, files, umask, pkg, environ, args, wt_pc, wt_i,
                   listing, written, err, log, calls, fs0, cr_pc, cr_args,
                   cr_k, cr_glob, atStart, outcomes, todo, phase, fsAll, sink,
                   m_argv, m_out, m_exit, m_body, importable, in_args, in_i,
                   invocations>>
    /\ UNCHANGED <<runVars, svVars>>

\* The disks init may start on: those of Disks (none at all, the tree of an
\* earlier create, a file that is in nobody's way), the empty output
\* directory, and a regular file where Prod/mdst belongs.
InitDisks ==
    Disks \cup
    { [d |-> [p \in {<<w_out>>} |-> FILE_MODE \ {"gx","ox"}], f |-> <<>>],
      [d |-> [p \in {<<w_out>>, <<w_out, w_Prod>>} |-> FILE_MODE],
       f |-> [p \in {<<w_out, w_Prod, w_mdst>>} |-> F(w_old, {"ur","uw"})]] }

InitMain ==
    /\ \E disk \in InitDisks :
        /\ dirs = disk.d
        /\ files = disk.f
        /\ fs0 = disk
    /\ umask \in Umasks
    /\ m_argv \in {<<>>, <<w_h>>, <<w_help>>} \cup
                  {<<n>> : n \in Modules \cup {w_init, w_bad}}
    /\ importable \in {Modules, Modules \ {w_create}}
    /\ in_args = [outdir |-> <<w_out>>]
    /\ m_pc = "idle"
    /\ m_out = ""
    /\ m_exit = <<>>
    /\ m_body = None
    /\ in_i = 0
    /\ invocations = 0
    /\ sink = "none"
    /\ NoRun
    /\ NoSolvate
    /\ pkg = <<>>
    /\ environ = {}
    /\ args = [data |-> <<>>, subdir |-> <<>>, package_path |-> <<>>,
               template |-> <<>>]
    /\ wt_pc = "idle"
    /\ wt_i = 0
    /\ listing = <<>>
    /\ written = <<>>
    /\ err = NoErr
    /\ log = <<>>
    /\ calls = 0
    /\ prev = NoSnapshot
    /\ cr_pc = "none"
    /\ cr_args = NoCreate
    /\ cr_k = 0
    /\ cr_glob = {}
    /\ atStart = NoSnapshot
    /\ outcomes = <<>>
    /\ todo = <<>>
    /\ phase = "none"
    /\ fsAll = NoSnapshot

NextMain == MainInvoke \/ InitMkdir \/ InitReturn \/ MainBodyEnd \/ MainAgain

SpecMain == InitMain /\ [][NextMain]_vars

\* C23: when main is given a subcommand name for which no module cmd_<name>
\* can be imported, it ends with an error message and a non-zero exit status
\* and the body of no subcommand is run, nothing is made on the disk and no
\* log sink is set up; when it is given no subcommand or the help option it
\* prints the usage and exits with status zero, running no body either.
C23_UnknownNameNoBody ==
    /\ (m_argv # <<>> /\ m_argv[1] \notin HelpOptions /\ m_argv[1] \notin importable) =>
          /\ m_body = None
          /\ m_pc \in {"idle", "exited"}
          /\ dirs = fs0.d /\ files = fs0.f /\ sink = "none"
          /\ (m_pc = "exited" => (m_out = "Error:" /\ m_exit # <<>> /\ m_exit # <<0>>))
    /\ (m_argv = <<>> \/ (m_argv # <<>> /\ m_argv[1] \in HelpOptions)) =>
          /\ m_body = None
          /\ m_pc \in {"idle", "exited"}
          /\ (m_pc = "exited" => (m_out = "Usage:" /\ m_exit = <<0>>))

C23_Witness ==
    /\ m_pc = "exited"
    /\ m_argv = <<w_create>>
    /\ w_create \notin importable
    /\ m_out = "Error:"
    /\ m_exit = <<2>>
    /\ invocations = 2

\* the paths the documentation of init names under an output directory
C24_Tree(O) ==
    {O \o <<n>> : n \in {w_Prep, w_Equil, w_Prod, w_Analysis, w_Scripts}} \cup
    {O \o <<w_Equil, w_min \o Dec(k)>> : k \in {1, 2, 11, 12, 13, 14, 15}} \cup
    {O \o <<w_Equil, w_md \o Dec(k)>> : k \in {1, 2, 11, 12, 13, 14, 15, 16}} \cup
    {O \o <<w_Prod, n>> : n \in {w_mdst, w_mdprod}}

InitSucceeded == m_pc = "exited" /\ m_body = w_setup /\ m_exit = <<0>>

\* C24: after init has returned on an output directory O, whether O existed
\* before or not, every directory of the documented tree exists under O and
\* Equil/min16 has not been made; when init is then run again on the same O
\* it succeeds as well and leaves directories and files as they were.
C24_TreeAndIdempotent ==
    /\ InitSucceeded =>
        /\ \A p \in C24_Tree(in_args.outdir) : p \in DOMAIN dirs
        /\ ((in_args.outdir \o <<w_Equil, <<"m","i","n","1","6">>>>) \in DOMAIN dirs
              => (in_args.outdir \o <<w_Equil, <<"m","i","n","1","6">>>>) \in DOMAIN fs0.d)
        /\ ((invocations >= 2 /\ prev.pc = "done") =>
              (dirs = prev.dirs /\ files = prev.files))
    /\ (m_body = w_setup /\ invocations >= 2 /\ prev.pc = "done" /\ m_pc = "exited")
          => m_exit = <<0>>

C24_Witness ==
    /\ InitSucceeded
    /\ invocations = 2
    /\ prev.pc = "done"
    /\ in_args.outdir \notin DOMAIN fs0.d
    /\ Cardinality(DOMAIN dirs) = 23
    /\ dirs = prev.dirs

-----------------------------------------------------------------------------
(* commands/cmd_solvate.py: cli *)

w_fixed   == <<"f","i","x","e","d">>
w_leap    == <<"l","e","a","p">>
w_gromacs == <<"g","r","o","m","a","c","s">>

\* lines 99-106: click.Choice("amber charmm gromacs".split())
SolvatePrograms == {w_amber, w_charmm, w_gromacs}

\* the prefix without a suffix
FilenameOf_Bare(a) == a.outdir \o a.prefix

\* line 163: outdir / prefix.with_suffix(".in")
FilenameOf(a) == a.outdir \o WithSuffix(a.prefix, w_in)

\* line 175: the file write_template is expected to have left
Rendered(a) == a.outdir \o <<w_solvate, w_solvate \o w_in>>

\* line 165: the data handed to the templates
SolvateData(a) ==
    [input |-> <<"i">>, prefix |-> AsPosix(a.prefix), toppar |-> <<"t">>,
     ff |-> Dec(36)]

\* lines 167-169: templates / sim_prog / "leap" for amber, "solvate" otherwise
PackagePath(sim_prog) ==
    <<w_templates, sim_prog, IF sim_prog = w_amber THEN w_leap ELSE w_solvate>>

\* the logger's file sink taken to be the command log always
SinkOf_Same(logfile, logname) == "cmdlog"

\* lines 160 and 164: the logger's file sink is the --logfile option; it is
\* the command log when the option names outdir / prefix.log
SinkOf(logfile, logname) == IF logfile = logname THEN "cmdlog" ELSE "other"

\* extra_dirs without tleap
ExtraDirs_NoTleap == <<w_fixed, w_solvate>>

\* extra_dirs without fixed
ExtraDirs_NoFixed == <<w_solvate, w_tleap>>

\* line 176: extra_dirs
ExtraDirs == <<w_fixed, w_solvate, w_tleap>>

\* an executable name for every program
CommandOf_All(sim_prog) == w_tleap

\* lines 181-182: command = {"amber": "tleap"}; command[sim_prog], None
\* standing for the KeyError of a program without an entry
CommandOf(sim_prog) == IF sim_prog = w_amber THEN w_tleap ELSE None

\* shutil.move(src, dst): where the file ends up; into dst when dst is a
\* directory
MoveTarget(d, src, dst) == IF IsDir(d, dst) THEN dst \o <<Name(src)>> ELSE dst

\* shutil.move(src, dst): the exception it raises
MoveError(d, f, src, dst) ==
    IF ~IsFile(f, src) THEN "FileNotFoundError"
    ELSE IF IsDir(d, dst) /\ (IsFile(f, MoveTarget(d, src, dst)) \/ IsDir(d, MoveTarget(d, src, dst)))
    THEN "Error"
    ELSE "none"

\* shutil.move(src, dst) of a file on one file system: os.rename
Move(d, f, src, dst) ==
    [q \in (DOMAIN f \ {src}) \cup {MoveTarget(d, src, dst)} |->
        IF q = MoveTarget(d, src, dst) THEN f[src] ELSE f[q]]

\* the entries below p that cannot be unlinked: their directory is not
\* writable and searchable
Stuck(d, f, p) ==
    {q \in DOMAIN d \cup DOMAIN f :
        /\ IsPrefix(p, q) /\ q # p
        /\ IsDir(d, p)
        /\ ~({"uw", "ux"} \subseteq d[Parent(q)])}

\* shutil.rmtree(p, ignore_errors=True): what is left at and below p.  A
\* regular file at p is not a tree (NotADirectoryError, ignored); a directory
\* stays when an entry below it stays.
Remains(d, f, p) ==
    IF IsFile(f, p) THEN {p}
    ELSE {q \in DOMAIN d \cup DOMAIN f :
            /\ IsPrefix(p, q)
            /\ \E x \in Stuck(d, f, p) : IsPrefix(q, x)}

\* shutil.rmtree(p, ignore_errors=True): the disk afterwards
Rmtree(d, f, p) ==
    [d |-> [q \in {x \in DOMAIN d : ~IsPrefix(p, x) \/ x \in Remains(d, f, p)} |-> d[q]],
     f |-> [q \in {x \in DOMAIN f : ~IsPrefix(p, x) \/ x \in Remains(d, f, p)} |-> f[q]]]

LineSolvation == "INFO | Writing solvation script to ...\n"
LineAdding    == "INFO | Adding ions and solvating the system\n"

\* lines 160-172: config_logger opens the log file; the script's name is
\* logged and write_template is called
SolvateStart ==
    /\ sv_pc = "idle"
    /\ LET logname == LognameOf(sv_args)
           snk     == SinkOf(sv_args.logfile, logname)
           f0      == IF snk = "cmdlog" THEN OpenA(files, umask, logname) ELSE files
       IN  /\ sink' = snk
           /\ IF snk = "cmdlog" /\ OpenError(dirs, files, logname) # "none"
              THEN /\ sv_pc' = "exited"
                   /\ sv_fail' = "config"
                   /\ err' = Error(OpenError(dirs, files, logname), logname)
                   /\ UNCHANGED <<files, log, args, written, wt_i, listing, wt_pc>>
              ELSE /\ sv_pc' = "render"
                   /\ files' = SinkLine(f0, snk, sv_args, LineSolvation)
                   /\ log' = Append(log, Info("Writing solvation script to", FilenameOf(sv_args)))
                   /\ WTEnter([data |-> SolvateData(sv_args),
                               subdir |-> sv_args.outdir,
                               package_path |-> PackagePath(sv_args.sim_prog),
                               template |-> w_solvate])
                   /\ UNCHANGED sv_fail
    /\ UNCHANGED <<dirs, umask, pkg, environ, calls, fs0, prev, cr_pc,
                   cr_args, cr_k, cr_glob, atStart, outcomes, todo, phase,
                   fsAll, sv_args, sv_k, sv_kept>>
    /\ UNCHANGED <<mainVars, runVars>>

\* line 172: write_template has raised; nothing in cli catches it
SolvateRaised ==
    /\ sv_pc = "render"
    /\ wt_pc = "failed"
    /\ sv_pc' = "exited"
    /\ sv_fail' = "render"
    /\ UNCHANGED <<dirs, files, umask, pkg, environ, args, wt_pc, wt_i,
                   listing, written, err, log, calls, fs0, prev, cr_pc,
                   cr_args, cr_k, cr_glob, atStart, outcomes, todo, phase,
                   fsAll, sink, sv_args, sv_k, sv_kept>>
    /\ UNCHANGED <<mainVars, runVars>>

\* line 175: shutil.move(outdir / "solvate" / "solvate.in", filename)
SolvateMove ==
    /\ sv_pc = "render"
    /\ wt_pc = "done"
    /\ LET src == Rendered(sv_args)
           dst == FilenameOf(sv_args)
       IN  IF MoveError(dirs, files, src, dst) # "none"
           THEN /\ sv_pc' = "exited"
                /\ sv_fail' = "move"
                /\ err' = Error(MoveError(dirs, files, src, dst), src)
                /\ UNCHANGED files
           ELSE /\ sv_pc' = "rmtree"
                /\ files' = Move(dirs, files, src, dst)
                /\ UNCHANGED <<sv_fail, err>>
    /\ sv_k' = 0
    /\ UNCHANGED <<dirs, umask, pkg, environ, args, wt_pc, wt_i, listing,
                   written, log, calls, fs0, prev, cr_pc, cr_args, cr_k,
                   cr_glob, atStart, outcomes, todo, phase, fsAll, sink,
                   sv_args, sv_kept>>
    /\ UNCHANGED <<mainVars, runVars>>

\* lines 176-178: the next directory of extra_dirs is removed, errors ignored
SolvateRmtree ==
    /\ sv_pc = "rmtree"
    /\ sv_k < Len(ExtraDirs)
    /\ LET p == sv_args.outdir \o <<ExtraDirs[sv_k + 1]>>
       IN  /\ dirs' = Rmtree(dirs, files, p).d
           /\ files' = Rmtree(dirs, files, p).f
           /\ sv_kept' = sv_kept \cup (Remains(dirs, files, p) \cap {p})
    /\ sv_k' = sv_k + 1
    /\ UNCHANGED <<umask, pkg, environ, args, wt_pc, wt_i, listing, written,
                   err, log, calls, fs0, prev, cr_pc, cr_args, cr_k, cr_glob,
                   atStart, outcomes, todo, phase, fsAll, sink, sv_pc,
                   sv_args, sv_fail>>
    /\ UNCHANGED <<mainVars, runVars>>

\* lines 180-182: the step is logged and the command name selected; a
\* program without an entry raises KeyError, otherwise run_command is called
SolvateCommand ==
    /\ sv_pc = "rmtree"
    /\ sv_k = Len(ExtraDirs)
    /\ files' = SinkLine(files, sink, sv_args, LineAdding)
    /\ log' = Append(log, <<"INFO", "Adding ions and solvating the system", <<>>>>)
    /\ IF CommandOf(sv_args.sim_prog) = None
       THEN /\ sv_pc' = "exited"
            /\ sv_fail' = "command"
            /\ err' = Error("KeyError", sv_args.sim_prog)
            /\ UNCHANGED <<rc_pc, rc_args>>
       ELSE /\ sv_pc' = "run"
            /\ rc_pc' = "idle"
            /\ rc_args' = [command |-> CommandOf(sv_args.sim_prog),
                           infile  |-> FilenameOf(sv_args),
                           cmdlog  |-> LognameOf(sv_args)]
            /\ UNCHANGED <<sv_fail, err>>
    /\ UNCHANGED <<dirs, umask, pkg, environ, args, wt_pc, wt_i, listing,
                   written, calls, fs0, prev, cr_pc, cr_args, cr_k, cr_glob,
                   atStart, outcomes, todo, phase, fsAll, sink, sv_args, sv_k,
                   sv_kept>>
    /\ UNCHANGED <<mainVars, rc_cmd, onPath, handles, opens, started, emitted,
                   status, before, runs, sv_err>>

\* The templates of a solvate template set (the package's template files
\* are listed at run time): one per directory of extra_dirs, and a solvate
\* template that does not compile.
T_fixed   == Template(<<w_fixed \o w_jinja2>>, <<Lit("f"), Var("ff")>>, TRUE)
T_solvate == Template(<<w_solvate \o w_jinja2>>, <<Lit("s"), Var("prefix")>>, TRUE)
T_broken  == Template(<<w_solvate \o w_jinja2>>, <<Lit("{")>>, FALSE)
T_tleap   == Template(<<w_tleap \o w_jinja2>>, <<Lit("t")>>, TRUE)

\* the listings of the set of one program, in list_templates() order
SolvateListings(sim_prog) ==
    IF sim_prog = w_amber
    THEN { <<T_fixed, T_solvate, T_tleap>>, <<T_solvate>>,
           <<T_fixed, T_broken>>, <<T_tleap>> }
    ELSE { <<T_solvate>> }

\* the package: the set of the program is there with one listing, or is not
SolvatePackages(sim_prog) ==
    {<<>>} \cup
    {[p \in {PackagePath(sim_prog)} |-> l] : l \in SolvateListings(sim_prog)}

\* The disks solvate may start on, the output directory being there (--outdir
\* is checked to exist): nothing in it; the directories of extra_dirs, the
\* script and the log of an earlier run, with other content; a regular file
\* named fixed; a directory fixed that is not writable, holding a file; a
\* directory where the log belongs.
SolvateDisks(a) ==
    LET O == a.outdir
    IN  { [d |-> [p \in {O} |-> FILE_MODE], f |-> <<>>],
          [d |-> [p \in {O, O \o <<w_fixed>>, O \o <<w_solvate>>, O \o <<w_tleap>>,
                         O \o <<w_tleap, w_sub>>} |-> FILE_MODE],
           f |-> [p \in {O \o <<w_solvate, w_keep \o w_in>>,
                         O \o <<w_tleap, w_sub, w_keep>>,
                         O \o <<w_fixed, w_keep>>,
                         FilenameOf(a), LognameOf(a)} |->
                    IF p = LognameOf(a) THEN F(<<"old\n">>, {"ur", "uw"})
                    ELSE F(w_old, {"ur", "uw"})]],
          [d |-> [p \in {O} |-> FILE_MODE],
           f |-> [p \in {O \o <<w_fixed>>} |-> F(w_old, {"ur", "uw"})]],
          [d |-> [p \in {O, O \o <<w_fixed>>, O \o <<w_solvate>>} |->
                    IF p = O \o <<w_fixed>> THEN {"ur", "ux"} ELSE FILE_MODE],
           f |-> [p \in {O \o <<w_fixed, w_keep>>,
                         O \o <<w_solvate, w_keep \o w_in>>} |->
                    F(w_old, {"ur", "uw"})]],
          [d |-> [p \in {O, LognameOf(a)} |-> FILE_MODE], f |-> <<>>] }

\* open() and mkdir() are modelled without permission checks: a set that
\* writes below a directory is not paired with a disk where that directory
\* is not writable
Writable(disk, a, package) ==
    \A pp \in DOMAIN package : \A i \in 1..Len(package[pp]) :
        LET sd == Subdirectory(a.outdir, package[pp][i].name)
        IN  sd \in DOMAIN disk.d => "uw" \in disk.d[sd]

InitSolvate ==
    /\ \E outdir \in {<<w_out>>, <<w_MyScripts>>},
          prefix \in {<<w_solvate>>, <<w_run>>},
          sim_prog \in SolvatePrograms,
          here \in BOOLEAN :
        LET a0 == [outdir |-> outdir, prefix |-> prefix, sim_prog |-> sim_prog]
            a  == [outdir |-> outdir, prefix |-> prefix, sim_prog |-> sim_prog,
                   logfile |-> IF here THEN LognameOf(a0)
                               ELSE <<w_solvate \o w_log>>]
        IN  /\ sv_args = a
            /\ \E disk \in SolvateDisks(a), package \in SolvatePackages(sim_prog) :
                /\ Writable(disk, a, package)
                /\ outdir = <<w_MyScripts>> => disk.f = <<>>
                /\ dirs = disk.d
                /\ files = disk.f
                /\ fs0 = disk
                /\ pkg = package
    /\ umask \in Umasks
    /\ onPath \in {{}, {w_tleap}}
    /\ environ \in {{"AMBERHOME"}}
    /\ sv_pc = "idle"
    /\ sv_k = 0
    /\ sv_kept = {}
    /\ sv_fail = ""
    /\ sink = "none"
    /\ rc_pc = "none"
    /\ rc_args = <<>>
    /\ rc_cmd = None
    /\ handles = 0
    /\ opens = 0
    /\ started = 0
    /\ emitted = <<>>
    /\ status = <<>>
    /\ before = <<>>
    /\ runs = 0
    /\ sv_err = NoErr
    /\ NoMain
    /\ args = [data |-> <<>>, subdir |-> <<>>, package_path |-> <<>>,
               template |-> <<>>]
    /\ wt_pc = "idle"
    /\ wt_i = 0
    /\ listing = <<>>
    /\ written = <<>>
    /\ err = NoErr
    /\ log = <<>>
    /\ calls = 0
    /\ prev = NoSnapshot
    /\ cr_pc = "none"
    /\ cr_args = NoCreate
    /\ cr_k = 0
    /\ cr_glob = {}
    /\ atStart = NoSnapshot
    /\ outcomes = <<>>
    /\ todo = <<>>
    /\ phase = "none"
    /\ fsAll = NoSnapshot

NextSolvate ==
    \/ SolvateStart \/ WTIter \/ WTReturn \/ SolvateRaised \/ SolvateMove
    \/ SolvateRmtree \/ SolvateCommand
    \/ RunCall \/ RunOpen \/ RunSpawn \/ ProcWrite \/ ProcExit \/ SolvateEnd

SpecSolvate == InitSolvate /\ [][NextSolvate]_vars

-----------------------------------------------------------------------------
(* solvate: its two logs, its outputs and the order of its steps *)

\* outdir/<prefix><suffix>, the suffix put after the prefix as it was given
Named(a, suffix) == a.outdir \o <<a.prefix[Len(a.prefix)] \o suffix>>

\* the lines of the logger among the strings of a file
OwnLines(c) == SelectSeq(c, LAMBDA x : x \notin Chunks /\ x # "old\n")

\* C21 as stated: in solvate the file that receives the external tool's
\* output is the file that receives the tool's own log messages, whatever
\* the logfile, outdir and prefix options are.
C21_SameFileAlways ==
    rc_pc = "running" => sv_args.logfile = rc_args.cmdlog

\* C21, amended: the external tool's output goes to outdir/<prefix>.log, the
\* tool's own log messages to the file of the logfile option; the two are
\* one file exactly when the option names outdir/<prefix>.log, and only then
\* does the file that holds the output hold log messages as well.
C21_SameFileWhenNamed ==
    (sv_pc = "run" /\ rc_pc \in {"running", "done", "failed"} /\ started = 1) =>
        /\ rc_args.cmdlog = Named(sv_args, w_log)
        /\ rc_args.cmdlog \in DOMAIN files
        /\ LET c == files[rc_args.cmdlog].content
           IN  /\ Len(SelectSeq(c, LAMBDA x : x \in Chunks)) = Len(emitted)
               /\ (OwnLines(c) # <<>>) <=> (sv_args.logfile = Named(sv_args, w_log))
        /\ LogFile # <<>>

C21_Witness ==
    /\ sv_pc = "run"
    /\ rc_pc = "done"
    /\ sv_args.logfile # Named(sv_args, w_log)
    /\ Len(emitted) = 2
    /\ OwnLines(files[rc_args.cmdlog].content) = <<>>
    /\ Len(log) >= 4

C30_ExtrasGone ==
    /\ [][(started' # started) =>
            \A e \in {w_fixed, w_solvate, w_tleap} :
                LET p == sv_args.outdir \o <<e>>
                IN  /\ IsDir(dirs, p) => p \in sv_kept
                    /\ p \notin sv_kept =>
                          \A q \in DOMAIN dirs \cup DOMAIN files : ~IsPrefix(p, q)]_vars
    /\ [][(sv_pc = "rmtree") =>
            /\ sv_pc' \in {"rmtree", "run", "exited"}
            /\ sv_pc' = "exited" => sv_fail' = "command"]_vars
    /\ [](\A p \in sv_kept : p \in DOMAIN fs0.d \cup DOMAIN fs0.f)

C30_Witness ==
    /\ started = 1
    /\ rc_pc = "running"
    /\ sv_kept = {sv_args.outdir \o <<w_fixed>>}
    /\ IsDir(dirs, sv_args.outdir \o <<w_fixed>>)
    /\ (sv_args.outdir \o <<w_solvate, w_keep \o w_in>>) \in DOMAIN fs0.f
    /\ ~IsDir(dirs, sv_args.outdir \o <<w_solvate>>)

=============================================================================
